---- MODULE Spec2Model ----
(***************************************************************************)
(* TrueType subsetting codec of scribe-go (package ttf): Parse decodes a   *)
(* font file into a Font, Generate writes a subset font for a codepoint    *)
(* set.  Buffers are sequences of bytes (0..255); a buffer position p of   *)
(* the Go code is element p+1 of the sequence.                             *)
(***************************************************************************)
EXTENDS Integers, Sequences, FiniteSets, TLC

VARIABLES
    cfg,        \* the description the source font file was built from
    fontBytes,  \* `in`: the bytes of the source font file
    font,       \* the Font that Parse(fontBytes, &font) filled
    parseErr,   \* the error Parse(fontBytes, &font) returned, "" for nil
    phase,      \* position of the caller / of generate()
    gen,        \* the Generator of the Generate call in progress
    ret,        \* what the last finished Generate call returned
    reparsed,   \* the Font that Parse(ret.subset, ..) filled, with its error
    last,       \* what an earlier Generate call on the same Font returned
    pad,        \* the ScratchPad: its counters and its cursor
    padLog,     \* the last call on the ScratchPad and what it returned
    fontSet,    \* the FontSet, and the last AddTtf call on it
    doc         \* the Scribe document: its xobjects and the objects written

ttfVars == <<cfg, fontBytes, font, parseErr, phase, gen, ret, reparsed, last>>
padVars == <<pad, padLog>>
vars == <<ttfVars, padVars, fontSet, doc>>

----------------------------------------------------------------------------
(* Bounds of the model.                                                    *)

\* Number of glyphs of the source fonts.
NumGlyphs == 6

\* Capacity of a caller-supplied, previously used `out` buffer.
OutCap == 640

----------------------------------------------------------------------------
(* Program constants.                                                      *)

TableNameCmap == 1668112752
TableNameCvt == 1668707360
TableNameFpgm == 1718642541
TableNameGasp == 1734439792
TableNameGlyf == 1735162214
TableNameHead == 1751474532
TableNameHhea == 1751672161
TableNameHmtx == 1752003704
TableNameLoca == 1819239265
TableNameMaxp == 1835104368
TableNameName == 1851878757
TableNameOs2 == 1330851634
TableNamePost == 1886352244
TableNamePrep == 1886545264

TagTrue == 1953658213
TagTrueType == 65536

platformMicrosoft == 3
platformUnicode == 0
codeMsUnicodeBmp == 1
codeUnicodeExt == 3
cmapFormat4 == 4

\* Size of the fixed segment arrays of genCmap and parseCmap.
SegArrayLen == 512

\* glyfFlag bits.
GlyfFlagArg1And2AreWords == 1
GlyfFlagWeHaveAScale == 8
GlyfFlagMoreComponents == 32
GlyfFlagWeHaveAnXAndYScale == 64
GlyfFlagWeHaveATwoByTwo == 128

\* OS/2 fsType bits tested by parseOs2.
flagLicensed == 2
flagEmbedBitmapOnly == 256

requiredTableCount == 9

TableNames ==
    {"cmap", "cvt", "fpgm", "gasp", "glyf", "head", "hhea", "hmtx", "loca",
     "maxp", "name", "os2", "post", "prep"}

TagOf(name) ==
    CASE name = "cmap" -> TableNameCmap
      [] name = "cvt"  -> TableNameCvt
      [] name = "fpgm" -> TableNameFpgm
      [] name = "gasp" -> TableNameGasp
      [] name = "glyf" -> TableNameGlyf
      [] name = "head" -> TableNameHead
      [] name = "hhea" -> TableNameHhea
      [] name = "hmtx" -> TableNameHmtx
      [] name = "loca" -> TableNameLoca
      [] name = "maxp" -> TableNameMaxp
      [] name = "name" -> TableNameName
      [] name = "os2"  -> TableNameOs2
      [] name = "post" -> TableNamePost
      [] name = "prep" -> TableNamePrep

\* a check for required tables that lets a file without post through
RequiredTablesButPost ==
    {"cmap", "glyf", "head", "hhea", "hmtx", "loca", "maxp", "name"}

\* the tables parseIndex requires
RequiredTables ==
    {"cmap", "glyf", "head", "hhea", "hmtx", "loca", "maxp", "name", "post"}

----------------------------------------------------------------------------
(* Big-endian byte arithmetic.                                             *)

Min(a, b) == IF a < b THEN a ELSE b
Max(a, b) == IF a > b THEN a ELSE b

RECURSIVE Fill(_, _)
\* n bytes b
Fill(n, b) ==
    IF n <= 0 THEN << >>
    ELSE IF n = 1 THEN <<b>>
    ELSE LET h == Fill(n \div 2, b)
         IN  h \o h \o (IF n % 2 = 1 THEN <<b>> ELSE << >>)
Zeros(n) == Fill(n, 0)

BytesU16(v) == <<(v \div 256) % 256, v % 256>>
BytesU32(v) ==
    <<(v \div 16777216) % 256, (v \div 65536) % 256, (v \div 256) % 256, v % 256>>

\* u16 arithmetic wraps modulo 2^16.
WrapU16(v) == v % 65536

\* i16(x): reinterpretation of a u16 as a signed value.
AsI16(v) == IF v >= 32768 THEN v - 65536 ELSE v
\* the u16 holding a signed 16-bit value
OfI16(v) == IF v < 0 THEN v + 65536 ELSE v

\* binary.BigEndian.Uint16 / Uint32 at position pos of buf.
PeekU16(buf, pos) == buf[pos + 1] * 256 + buf[pos + 2]
PeekU32(buf, pos) ==
    ((buf[pos + 1] * 256 + buf[pos + 2]) * 256 + buf[pos + 3]) * 256 + buf[pos + 4]
\* i32 of the four bytes at pos
PeekI32(buf, pos) ==
    ((AsI16(buf[pos + 1] * 256 + buf[pos + 2])) * 256 + buf[pos + 3]) * 256
        + buf[pos + 4]
PeekI16(buf, pos) == AsI16(PeekU16(buf, pos))

\* a table length taken without the padding
LenUnpadded(t) == t.Len

\* Table.LenPadded: (Len + 3) &^ 3
LenPadded(t) == ((t.Len + 3) \div 4) * 4
\* GlyfEntry.lenPadded: (len + 1) &^ 1
GlyfLenPadded(len) == ((len + 1) \div 2) * 2

NoTable == [Ptr |-> 0, Len |-> 0]
NoTables == [n \in TableNames |-> NoTable]

\* copy(dst[pos:], bytes): buf with bytes stored at position pos
StoreAt(buf, pos, bytes) ==
    SubSeq(buf, 1, pos) \o bytes \o SubSeq(buf, pos + Len(bytes) + 1, Len(buf))

\* r.buf[pos:][0:count] panics unless the range lies in the buffer
CanRead(buf, pos, count) == pos >= 0 /\ pos + count <= Len(buf)

----------------------------------------------------------------------------
(* Source font files.  A file is laid out from a description c:            *)
(*   c.layout       which glyph set (simple, empty and composite glyphs)   *)
(*   c.cmapv        which codepoint -> glyph assignment                    *)
(*   c.metricCount  numberOfHMetrics of hhea                               *)
(*   c.fsType       fsType of the OS/2 table                                *)
(*   c.missing      the table the directory lacks, "none" if it lacks none  *)
(*   c.badVersion   whether the version tag is one Parse does not know      *)
(*   c.optional     whether the file has cvt, fpgm, gasp and prep tables    *)
(* The byte layout is that of the TrueType reference the code cites.       *)

Codepoints == {65, 66, 97}

Layouts == {1, 2}
CmapVariants == {1, 2}

Gids == 0..(NumGlyphs - 1)

\* The composite glyphs: their components as <<flags, glyph id>>, the flags
\* without the more-components bit.
\* Layout 1: 2 -> 1, 3 -> {2, 5} (nested).  Layout 2: 2 -> 3, 3 -> {2, 4}
\* (a cycle); glyphs 1 and 5 have no outline.
Components(layout, g) ==
    CASE g = 2 /\ layout = 1 -> << <<2, 1>> >>
      [] g = 2 /\ layout = 2 -> << <<3, 3>> >>
      [] g = 3 /\ layout = 1 -> << <<9, 2>>, <<2, 5>> >>
      [] g = 3 /\ layout = 2 -> << <<66, 2>>, <<131, 4>> >>
      [] OTHER -> << >>

IsEmptyGlyph(layout, g) == layout = 2 /\ g \in {1, 5}
IsComposite(layout, g) == Components(layout, g) # << >>

SrcLocaFormat(layout) == IF layout = 1 THEN 0 ELSE 1
SrcUnitsPerEm(layout) == IF layout = 1 THEN 1000 ELSE 2000
SrcHasOs2(layout) == layout = 1

\* a single-bit flag of a u16
HasBit(flags, bit) == (flags \div bit) % 2 = 1

\* Bytes that follow the glyph index of a component: two arguments (bytes or
\* words) and the optional scale, x/y scale or 2x2 transform.
ComponentTrailerLen(flags) ==
    (IF HasBit(flags, 1) THEN 4 ELSE 2)
    + (IF HasBit(flags, 8) THEN 2
       ELSE IF HasBit(flags, 64) THEN 4
       ELSE IF HasBit(flags, 128) THEN 8 ELSE 0)

RECURSIVE ComponentBytes(_, _)
ComponentBytes(comps, i) ==
    IF i > Len(comps) THEN << >>
    ELSE LET more == IF i < Len(comps) THEN 32 ELSE 0
             flags == comps[i][1] + more
         IN  BytesU16(flags) \o BytesU16(comps[i][2])
                \o Fill(ComponentTrailerLen(flags), 7)
                \o ComponentBytes(comps, i + 1)

\* The glyf record of glyph g; xMin of the bounding box holds g, so that
\* every record tells which glyph it is.
GlyphBytes(layout, g) ==
    IF IsEmptyGlyph(layout, g) THEN << >>
    ELSE IF IsComposite(layout, g)
    THEN <<255, 255>> \o BytesU16(g) \o <<0, 0, 0, 100, 0, 100>>
            \o ComponentBytes(Components(layout, g), 1)
    ELSE <<0, 1>> \o BytesU16(g) \o <<0, 0, 0, 100, 0, 100, 0, 0>>
            \o (IF layout = 2 /\ g = 4 THEN <<9>> ELSE << >>)

RECURSIVE GlyfOffset(_, _)
GlyfOffset(layout, g) ==
    IF g = 0 THEN 0
    ELSE GlyfOffset(layout, g - 1) + Len(GlyphBytes(layout, g - 1))

RECURSIVE GlyfBody(_, _)
GlyfBody(layout, g) ==
    IF g >= NumGlyphs THEN << >>
    ELSE GlyphBytes(layout, g) \o GlyfBody(layout, g + 1)

RECURSIVE LocaBody(_, _)
LocaBody(layout, g) ==
    IF g > NumGlyphs THEN << >>
    ELSE (IF SrcLocaFormat(layout) = 0
          THEN BytesU16(GlyfOffset(layout, g) \div 2)
          ELSE BytesU32(GlyfOffset(layout, g)))
         \o LocaBody(layout, g + 1)

SrcWidth(g) == 500 + 10 * g
SrcLsb(g) == 20 + g

RECURSIVE HmtxBody(_, _)
HmtxBody(metricCount, g) ==
    IF g >= NumGlyphs THEN << >>
    ELSE (IF g < metricCount
          THEN BytesU16(SrcWidth(g)) \o BytesU16(SrcLsb(g))
          ELSE BytesU16(SrcLsb(g)))
         \o HmtxBody(metricCount, g + 1)

\* the glyph of a codepoint in the source font
SrcGid(cmapv, c) ==
    CASE c = 65 -> IF cmapv = 1 THEN 1 ELSE 3
      [] c = 66 -> IF cmapv = 1 THEN 2 ELSE 1
      [] c = 97 -> IF cmapv = 1 THEN 5 ELSE 0
      [] OTHER -> 0

\* cmap: a Macintosh subtable record the parser skips, then the
\* Microsoft/BMP record; one format 4 segment per codepoint and the final
\* segment 0xffff.  In variant 2 the segment of codepoint 97 is mapped
\* through idRangeOffset and the glyph index array.
CmapBody(cmapv) ==
    LET d(c) == WrapU16(SrcGid(cmapv, c) - c + 65536)
        useRange == cmapv = 2
        length == 16 + 8 * 4 + (IF useRange THEN 2 ELSE 0)
    IN  <<0, 0, 0, 2>>
        \o BytesU16(1) \o BytesU16(0) \o BytesU32(20)
        \o BytesU16(platformMicrosoft) \o BytesU16(codeMsUnicodeBmp)
        \o BytesU32(20)
        \o BytesU16(cmapFormat4) \o BytesU16(length) \o BytesU16(0)
        \o BytesU16(8) \o BytesU16(8) \o BytesU16(2) \o BytesU16(0)
        \o BytesU16(65) \o BytesU16(66) \o BytesU16(97) \o BytesU16(65535)
        \o BytesU16(0)
        \o BytesU16(65) \o BytesU16(66) \o BytesU16(97) \o BytesU16(65535)
        \o BytesU16(d(65)) \o BytesU16(d(66))
        \o BytesU16(IF useRange THEN 0 ELSE d(97)) \o BytesU16(1)
        \o BytesU16(0) \o BytesU16(0)
        \o BytesU16(IF useRange THEN 4 ELSE 0) \o BytesU16(0)
        \o (IF useRange THEN BytesU16(SrcGid(cmapv, 97)) ELSE << >>)

HeadBody(layout) ==
    <<0, 1, 0, 0>> \o <<0, 1, 0, 0>> \o <<18, 52, 86, 120>>
    \o <<95, 15, 60, 245>> \o <<0, 3>>
    \o BytesU16(SrcUnitsPerEm(layout))
    \o Fill(16, 5)
    \o BytesU16(OfI16(-100)) \o BytesU16(OfI16(-200))
    \o BytesU16(900) \o BytesU16(800)
    \o BytesU16(IF layout = 2 THEN 2 ELSE 0)
    \o BytesU16(8) \o BytesU16(2)
    \o BytesU16(SrcLocaFormat(layout))
    \o BytesU16(0)

HheaBody(metricCount) ==
    <<0, 1, 0, 0>> \o BytesU16(800) \o BytesU16(OfI16(-200))
    \o Fill(16, 6) \o Zeros(8)
    \o BytesU16(0) \o BytesU16(metricCount)

MaxpBody == <<0, 0, 80, 0>> \o BytesU16(NumGlyphs)

NameBody == <<0, 0, 0, 0, 0, 6>>

PostBody(layout) ==
    <<0, 2, 0, 0>>
    \o (IF layout = 2 THEN <<255, 244, 0, 0>> ELSE <<0, 0, 0, 0>>)
    \o BytesU16(OfI16(-75)) \o BytesU16(50)
    \o BytesU32(IF layout = 2 THEN 1 ELSE 0)
    \o Fill(16, 9)

Os2Body(fsType) ==
    BytesU16(2) \o BytesU16(510) \o BytesU16(400) \o BytesU16(5)
    \o BytesU16(fsType)
    \o Fill(16, 1)
    \o BytesU16(50) \o BytesU16(250)
    \o Fill(38, 2)
    \o BytesU16(750) \o BytesU16(OfI16(-250))
    \o Fill(16, 3)
    \o BytesU16(700)
    \o Fill(6, 4)

\* the optional tables other than OS/2, where a file has them
CvtBody == <<0, 10, 0, 20, 0, 30>>
FpgmBody == <<176, 0, 44, 176, 1>>
GaspBody == <<0, 1, 0, 1, 255, 255, 0, 10>>
PrepBody == <<184, 1, 255>>

RECURSIVE SelectTables(_, _)
\* the elements of tabs whose name is in names
SelectTables(tabs, names) ==
    IF tabs = << >> THEN << >>
    ELSE (IF Head(tabs)[1] \in names THEN <<Head(tabs)>> ELSE << >>)
            \o SelectTables(Tail(tabs), names)

\* the tables every sound file has
SrcMandatory == TableNames \ {"cvt", "fpgm", "gasp", "os2", "prep"}

\* the names of the tables of a file
SrcTableNames(c) ==
    ((SrcMandatory \ {c.missing})
        \cup (IF SrcHasOs2(c.layout) THEN {"os2"} ELSE {}))
        \cup (IF c.optional THEN {"cvt", "fpgm", "gasp", "prep"} ELSE {})

\* the tables of a file, in directory (tag) order
SrcTables(c) ==
    SelectTables(<< <<"os2", Os2Body(c.fsType)>>,
                    <<"cmap", CmapBody(c.cmapv)>>,
                    <<"cvt", CvtBody>>,
                    <<"fpgm", FpgmBody>>,
                    <<"gasp", GaspBody>>,
                    <<"glyf", GlyfBody(c.layout, 0)>>,
                    <<"head", HeadBody(c.layout)>>,
                    <<"hhea", HheaBody(c.metricCount)>>,
                    <<"hmtx", HmtxBody(c.metricCount, 0)>>,
                    <<"loca", LocaBody(c.layout, 0)>>,
                    <<"maxp", MaxpBody>>,
                    <<"name", NameBody>>,
                    <<"post", PostBody(c.layout)>>,
                    <<"prep", PrepBody>> >>,
                 SrcTableNames(c))

Padded(bytes) == bytes \o Zeros(((Len(bytes) + 3) \div 4) * 4 - Len(bytes))

RECURSIVE SrcDirectory(_, _, _)
SrcDirectory(tabs, i, ptr) ==
    IF i > Len(tabs) THEN << >>
    ELSE BytesU32(TagOf(tabs[i][1])) \o Zeros(4) \o BytesU32(ptr)
            \o BytesU32(Len(tabs[i][2]))
            \o SrcDirectory(tabs, i + 1, ptr + Len(Padded(tabs[i][2])))

RECURSIVE SrcBodies(_, _)
SrcBodies(tabs, i) ==
    IF i > Len(tabs) THEN << >>
    ELSE Padded(tabs[i][2]) \o SrcBodies(tabs, i + 1)

FontBytes(c) ==
    LET tabs == SrcTables(c)
        n == Len(tabs)
    IN  BytesU32(IF c.badVersion THEN TagTrueType + 65536
                 ELSE IF c.layout = 1 THEN TagTrueType ELSE TagTrue)
        \o BytesU16(n) \o Zeros(6)
        \o SrcDirectory(tabs, 1, 12 + 16 * n)
        \o SrcBodies(tabs, 1)

\* the fsType values of the OS/2 tables: editable embedding, installable,
\* restricted license, no subsetting, bitmap embedding only
FsTypes == {8, 0, 2, 256, 512}

\* a sound file with an OS/2 table of editable embedding
SoundConfig ==
    [layout |-> 1, cmapv |-> 1, metricCount |-> NumGlyphs, fsType |-> 8,
     missing |-> "none", badVersion |-> FALSE, optional |-> FALSE]

Configs ==
    [layout : Layouts, cmapv : CmapVariants, metricCount : {3, NumGlyphs},
     fsType : {8}, missing : {"none"}, badVersion : {FALSE},
     optional : {FALSE}]
    \cup {[SoundConfig EXCEPT !.fsType = t] : t \in FsTypes}
    \cup {[SoundConfig EXCEPT !.missing = n] : n \in SrcMandatory}
    \cup {[SoundConfig EXCEPT !.badVersion = TRUE],
          [SoundConfig EXCEPT !.optional = TRUE]}

----------------------------------------------------------------------------
(* Reader.parseIndex                                                       *)

RECURSIVE IndexEntries(_, _, _, _)
\* the loop over the directory entries: an entry with a known tag
\* overwrites the table of that name
IndexEntries(buf, i, tableCount, tables) ==
    IF i >= tableCount THEN tables
    ELSE LET pos == 12 + 16 * i
             name == PeekU32(buf, pos)
             known == {n \in TableNames : TagOf(n) = name}
         IN  IF known = {} THEN IndexEntries(buf, i + 1, tableCount, tables)
             ELSE LET n == CHOOSE x \in known : TRUE
                      t == [Ptr |-> PeekU32(buf, pos + 8),
                            Len |-> PeekU32(buf, pos + 12)]
                  IN  IndexEntries(buf, i + 1, tableCount,
                                   [tables EXCEPT ![n] = t])

\* [err, Tables]: err is "" on success, "panic" when a read leaves the
\* buffer, else the error returned.
parseIndex(buf) ==
    IF ~CanRead(buf, 0, 12) THEN [err |-> "panic", Tables |-> NoTables]
    ELSE LET typ == PeekU32(buf, 0)
             tableCount == PeekU16(buf, 4)
         IN  IF typ \notin {TagTrue, TagTrueType}
             THEN [err |-> "expected TrueType font", Tables |-> NoTables]
             ELSE IF ~CanRead(buf, 12, 16 * tableCount)
             THEN [err |-> "panic", Tables |-> NoTables]
             ELSE LET tables == IndexEntries(buf, 0, tableCount, NoTables)
                  IN  IF \E n \in RequiredTables : tables[n].Ptr = 0
                      THEN [err |-> "missing one or more required TTF tables",
                            Tables |-> tables]
                      ELSE [err |-> "", Tables |-> tables]

----------------------------------------------------------------------------
(* Parser.  Scaled metrics are products f32(fword) * Scale with            *)
(* Scale = 1000 / unitsPerEm; the model holds a metric as the pair         *)
(* <<fword, unitsPerEm>> the product is computed from, which determines    *)
(* it.                                                                     *)

ZeroFont ==
    [gids |-> << >>, widths |-> << >>,
     Bounds |-> << <<0, 0>>, <<0, 0>>, <<0, 0>>, <<0, 0>> >>,
     Ascent |-> <<0, 0>>, CapHeight |-> <<0, 0>>, Descent |-> <<0, 0>>,
     Flags |-> {}, ItalicAngle |-> 0, Scale |-> 0,
     StrikeoutPos |-> <<0, 0>>, StrikeoutSize |-> <<0, 0>>,
     UnderlinePos |-> <<0, 0>>, UnderlineSize |-> <<0, 0>>,
     GlyphCount |-> 0, MetricCount |-> 0, WeightClass |-> 0,
     LocaFormat |-> 0]

\* Font.GlyphId: gids holds the codepoints some segment covered, every
\* other element of the array is 0
GlyphId(f, char) == IF char \in DOMAIN f.gids THEN f.gids[char] ELSE 0

\* Font.Width
Width(f, gid) == f.widths[gid + 1]

\* Parser.fwordScaled at position pos
fwordScaled(f, buf, pos) == <<PeekI16(buf, pos), f.Scale>>

\* a scaled metric is 0 exactly when its fword is
IsZeroMetric(m) == m[1] = 0

parseHead(f, buf, T) ==
    LET ptr == T["head"].Ptr
    IN  IF ~CanRead(buf, ptr + 18, 36) THEN [err |-> "panic", font |-> f]
        ELSE LET f1 == [f EXCEPT !.Scale = PeekU16(buf, ptr + 18)]
                 f2 == [f1 EXCEPT
                          !.Bounds = << fwordScaled(f1, buf, ptr + 36),
                                        fwordScaled(f1, buf, ptr + 38),
                                        fwordScaled(f1, buf, ptr + 40),
                                        fwordScaled(f1, buf, ptr + 42) >>,
                          !.Flags = IF HasBit(PeekU16(buf, ptr + 44), 2)
                                    THEN f.Flags \cup {"Italic"}
                                    ELSE f.Flags,
                          !.LocaFormat = PeekU16(buf, ptr + 50) % 256]
             IN  IF PeekU16(buf, ptr + 52) # 0
                 THEN [err |-> "invalid glyphDataFormat", font |-> f2]
                 ELSE [err |-> "", font |-> f2]

parseHhea(f, buf, T) ==
    LET ptr == T["hhea"].Ptr
    IN  IF ~CanRead(buf, ptr + 4, 4) THEN [err |-> "panic", font |-> f]
        ELSE LET f1 == [f EXCEPT !.Ascent = fwordScaled(f, buf, ptr + 4),
                                 !.Descent = fwordScaled(f, buf, ptr + 6)]
             IN  IF ~CanRead(buf, ptr + 32, 2)
                 THEN [err |-> "panic", font |-> f1]
                 ELSE IF PeekU16(buf, ptr + 32) # 0
                 THEN [err |-> "invalid metricDataFormat", font |-> f1]
                 ELSE IF ~CanRead(buf, ptr + 34, 2)
                 THEN [err |-> "panic", font |-> f1]
                 ELSE LET f2 == [f1 EXCEPT
                                   !.MetricCount = PeekU16(buf, ptr + 34)]
                      IN  IF f2.MetricCount = 0
                          THEN [err |-> "numOfLongHorMetrics == 0",
                                font |-> f2]
                          ELSE [err |-> "", font |-> f2]

parseOs2(f, buf, T) ==
    LET ptr == T["os2"].Ptr
    IN  IF ptr = 0 THEN [err |-> "", font |-> f]
        ELSE IF ~CanRead(buf, ptr, 10) THEN [err |-> "panic", font |-> f]
        ELSE
        LET version == PeekU16(buf, ptr)
            f1 == [f EXCEPT !.WeightClass = PeekU16(buf, ptr + 4)]
            fsType == PeekU16(buf, ptr + 8)
        IN  IF HasBit(fsType, flagLicensed)
               \/ HasBit(fsType, flagEmbedBitmapOnly)
            THEN [err |-> "unable to parse protected or restricted font",
                  font |-> f1]
            ELSE IF ~CanRead(buf, ptr + 26, 46)
            THEN [err |-> "panic", font |-> f1]
            ELSE
            LET typoAscender == fwordScaled(f1, buf, ptr + 68)
                typoDescender == fwordScaled(f1, buf, ptr + 70)
                ascent == IF IsZeroMetric(f1.Ascent)
                          THEN typoAscender ELSE f1.Ascent
                f2 == [f1 EXCEPT
                         !.StrikeoutSize = fwordScaled(f1, buf, ptr + 26),
                         !.StrikeoutPos = fwordScaled(f1, buf, ptr + 28),
                         !.Ascent = ascent,
                         !.CapHeight = ascent,
                         !.Descent = IF IsZeroMetric(f1.Descent)
                                     THEN typoDescender ELSE f1.Descent]
            IN  IF version <= 1 THEN [err |-> "", font |-> f2]
                ELSE IF ~CanRead(buf, ptr + 88, 2)
                THEN [err |-> "panic", font |-> f2]
                ELSE [err |-> "",
                      font |-> [f2 EXCEPT
                                  !.CapHeight = fwordScaled(f2, buf, ptr + 88)]]

parsePost(f, buf, T) ==
    LET ptr == T["post"].Ptr
    IN  IF ~CanRead(buf, ptr + 4, 12) THEN [err |-> "panic", font |-> f]
        ELSE LET angle == PeekI32(buf, ptr + 4)
                 fixedPitch == SubSeq(buf, ptr + 13, ptr + 16) # <<0, 0, 0, 0>>
             IN  [err |-> "",
                  font |-> [f EXCEPT
                     !.ItalicAngle = angle,
                     !.UnderlinePos = fwordScaled(f, buf, ptr + 8),
                     !.UnderlineSize = fwordScaled(f, buf, ptr + 10),
                     !.Flags = f.Flags
                         \cup (IF fixedPitch THEN {"FixedWidth"} ELSE {})
                         \cup (IF angle # 0 THEN {"Italic"} ELSE {})]]

parseMaxP(f, buf, T) ==
    LET ptr == T["maxp"].Ptr
    IN  IF ~CanRead(buf, ptr + 4, 2) THEN [err |-> "panic", font |-> f]
        ELSE LET n == PeekU16(buf, ptr + 4)
             IN  [err |-> "",
                  font |-> [f EXCEPT !.GlyphCount = n,
                                     !.widths = [i \in 1..n |-> <<0, 0>>]]]

\* the codepoints for char := start; ; char += 1 visits until char = end
\* (char is a u16 and wraps)
SegmentChars(start, end) ==
    IF start <= end THEN start..end ELSE (start..65535) \cup (0..end)

RECURSIVE CmapRecord(_, _, _, _)
\* the loop over the subtable records: the offset of the first record for
\* platform 0 / encoding 3 or platform 3 / encoding 1; 0 when there is none,
\* -1 when a read leaves the buffer
CmapRecord(buf, ptr, i, subtableCount) ==
    IF i >= subtableCount THEN 0
    ELSE LET rec == ptr + 4 + 8 * i
         IN  IF ~CanRead(buf, rec, 4) THEN -1
             ELSE LET platform == PeekU16(buf, rec)
                      code == PeekU16(buf, rec + 2)
                  IN  IF (platform = platformUnicode /\ code = codeUnicodeExt)
                         \/ (platform = platformMicrosoft
                             /\ code = codeMsUnicodeBmp)
                      THEN IF CanRead(buf, rec + 4, 4)
                           THEN PeekU32(buf, rec + 4) ELSE -1
                      ELSE CmapRecord(buf, ptr, i + 1, subtableCount)

\* gids with the elements b assigns stored over those of a
Override(a, b) ==
    [c \in DOMAIN a \cup DOMAIN b |-> IF c \in DOMAIN b THEN b[c] ELSE a[c]]

\* one iteration of the loop over the segments: [err, gids], gids the
\* elements of p.font.gids the iteration assigns
CmapSegment(buf, sub, segCount, i) ==
    LET endCode == PeekU16(buf, sub + 14 + 2 * i)
        startCode == PeekU16(buf, sub + 16 + 2 * segCount + 2 * i)
        delta == PeekU16(buf, sub + 16 + 4 * segCount + 2 * i)
        posRangeOffset == sub + 16 + 6 * segCount + 2 * i
        rangeOffset == PeekU16(buf, posRangeOffset)
        chars == SegmentChars(startCode, endCode)
        posGlyphIndex(char) ==
            posRangeOffset + rangeOffset
                + 2 * ((char - startCode + 65536) % 65536)
        gidOf(char) ==
            IF rangeOffset = 0 THEN WrapU16(char + delta)
            ELSE PeekU16(buf, posGlyphIndex(char))
    IN  IF rangeOffset # 0
           /\ \E char \in chars : ~CanRead(buf, posGlyphIndex(char), 2)
        THEN [err |-> "panic", gids |-> << >>]
        ELSE [err |-> "", gids |-> [c \in chars |-> gidOf(c)]]

RECURSIVE CmapSegments(_, _, _, _, _)
\* the loop over the segments lo..hi, evaluated by halves: a later
\* iteration stores over an earlier one, and the loop ends at the first
\* iteration that fails
CmapSegments(buf, sub, segCount, lo, hi) ==
    IF lo = hi THEN CmapSegment(buf, sub, segCount, lo)
    ELSE LET mid == (lo + hi) \div 2
             L == CmapSegments(buf, sub, segCount, lo, mid)
         IN  IF L.err # "" THEN L
             ELSE LET R == CmapSegments(buf, sub, segCount, mid + 1, hi)
                  IN  [err |-> R.err, gids |-> Override(L.gids, R.gids)]

parseCmap(f, buf, T) ==
    LET ptr == T["cmap"].Ptr
    IN  IF ~CanRead(buf, ptr + 2, 2) THEN [err |-> "panic", font |-> f]
        ELSE
        LET offset == CmapRecord(buf, ptr, 0, PeekU16(buf, ptr + 2))
            sub == ptr + offset
        IN  IF offset = -1 THEN [err |-> "panic", font |-> f]
            ELSE IF offset = 0
            THEN [err |-> "no supported unicode character map table found",
                  font |-> f]
            ELSE IF ~CanRead(buf, sub, 2) THEN [err |-> "panic", font |-> f]
            ELSE IF PeekU16(buf, sub) # cmapFormat4
            THEN [err |-> "expected cmap table format 4", font |-> f]
            ELSE IF ~CanRead(buf, sub + 2, 12)
            THEN [err |-> "panic", font |-> f]
            ELSE
            LET segCount == PeekU16(buf, sub + 6) \div 2
            IN  IF segCount > SegArrayLen
                   \/ ~CanRead(buf, sub + 14, 8 * segCount + 2)
                THEN [err |-> "panic", font |-> f]
                ELSE IF segCount = 0 THEN [err |-> "", font |-> f]
                ELSE LET r == CmapSegments(buf, sub, segCount, 0,
                                           segCount - 1)
                     IN  [err |-> r.err,
                          font |-> [f EXCEPT
                                      !.gids = Override(f.gids, r.gids)]]

parseHmtx(f, buf, T) ==
    LET ptrOf(gid) == T["hmtx"].Ptr + 4 * Min(gid, f.MetricCount - 1)
    IN  IF \E gid \in 0..(f.GlyphCount - 1) : ~CanRead(buf, ptrOf(gid), 2)
        THEN [err |-> "panic", font |-> f]
        ELSE [err |-> "",
              font |-> [f EXCEPT !.widths =
                 [i \in 1..f.GlyphCount |-> fwordScaled(f, buf, ptrOf(i - 1))]]]

\* Parse(bytes, &font) on a zero Font: [err, font]; Then runs the next
\* table parser unless an earlier one failed
Parse(buf) ==
    LET Then(r, Step(_)) == IF r.err # "" THEN r ELSE Step(r.font)
        idx == parseIndex(buf)
        T == idx.Tables
        r0 == [err |-> idx.err, font |-> ZeroFont]
        r1 == Then(r0, LAMBDA f : parseHead(f, buf, T))
        r2 == Then(r1, LAMBDA f : parseHhea(f, buf, T))
        r3 == Then(r2, LAMBDA f : parseOs2(f, buf, T))
        r4 == Then(r3, LAMBDA f : parsePost(f, buf, T))
        r5 == Then(r4, LAMBDA f : parseMaxP(f, buf, T))
        r6 == Then(r5, LAMBDA f : parseCmap(f, buf, T))
    IN  Then(r6, LAMBDA f : parseHmtx(f, buf, T))

----------------------------------------------------------------------------
(* Writer.  buf is the whole backing array of the Go slice w.buf (its      *)
(* length is the capacity); len is the high-water mark and pos the cursor. *)
(* An access past the capacity panics: panic is then TRUE and stays so.    *)

NewWriter(out) ==
    [buf |-> out, len |-> 0, pos |-> 0, Tables |-> NoTables, panic |-> FALSE]

\* Allocation sizes the Go runtime rounds a byte slice up to.
SizeClasses ==
    {8, 16, 24, 32, 48, 64, 80, 96, 112, 128, 144, 160, 176, 192, 208, 224,
     240, 256, 288, 320, 352, 384, 416, 448, 480, 512, 576, 640, 704, 768,
     896, 1024, 1152, 1280, 1408, 1536, 1792, 2048}

roundupsize(n) ==
    IF \E c \in SizeClasses : c >= n
    THEN CHOOSE c \in SizeClasses :
            c >= n /\ \A d \in SizeClasses : d >= n => c <= d
    ELSE n

RECURSIVE growLoop(_, _)
growLoop(newcap, newLen) ==
    IF newcap >= newLen THEN newcap
    ELSE growLoop(newcap + (newcap + 768) \div 4, newLen)

\* capacity append gives a slice of capacity oldCap that must hold newLen
nextslicecap(newLen, oldCap) ==
    IF newLen > 2 * oldCap THEN newLen
    ELSE IF oldCap < 256 THEN 2 * oldCap
    ELSE growLoop(oldCap, newLen)

\* Writer.ensureCapRemaining: slices.Grow(w.buf[:w.len], byteCount) keeps
\* the old backing array's bytes and appends zero bytes when it reallocates
ensureCapRemaining(w, byteCount) ==
    LET cap == Len(w.buf)
        need == byteCount - (cap - w.len)
    IN  IF w.panic \/ need <= 0 THEN w
        ELSE LET newcap == roundupsize(nextslicecap(cap + need, cap))
             IN  [w EXCEPT !.buf = w.buf \o Zeros(newcap - cap)]

\* Writer.seekTo: w.buf = w.buf[:pos] panics past the capacity
seekTo(w, pos) ==
    IF w.panic THEN w
    ELSE IF pos > Len(w.buf) THEN [w EXCEPT !.panic = TRUE]
    ELSE [w EXCEPT !.pos = pos, !.len = Max(w.len, pos)]

\* Writer.skip
skip(w, count) == IF w.panic THEN w ELSE seekTo(w, w.pos + count)

\* Writer.write; Writer.u16, Writer.u32 and Writer.u16Array are write of
\* the big-endian bytes of their values
write(w, src) ==
    IF w.panic THEN w
    ELSE IF w.pos + Len(src) > Len(w.buf) THEN [w EXCEPT !.panic = TRUE]
    ELSE skip([w EXCEPT !.buf = StoreAt(w.buf, w.pos, src)], Len(src))

setTable(w, name, t) ==
    IF w.panic THEN w ELSE [w EXCEPT !.Tables[name] = t]

\* Writer.Bytes: w.buf[:cap(w.buf)]
Bytes(w) == w.buf

----------------------------------------------------------------------------
(* Generate and Generator.generate up to the call of genGlyfAndLoca.       *)

\* the order in which generate copies the tables it does not regenerate
\* a copy list that leaves out gasp
CopiedTablesButGasp ==
    <<"cvt", "fpgm", "head", "hhea", "maxp", "name", "os2", "prep">>

CopiedTables ==
    <<"cvt", "fpgm", "gasp", "head", "hhea", "maxp", "name", "os2", "prep">>

OptionalTables == {"cvt", "fpgm", "gasp", "os2", "prep"}

\* Generator.copy
copy(w, buf, tableIn, name) ==
    IF tableIn.Ptr = 0 \/ w.panic THEN w
    ELSE IF ~CanRead(buf, tableIn.Ptr, tableIn.Len)
    THEN [w EXCEPT !.panic = TRUE]
    ELSE LET tableOut == [Ptr |-> w.pos, Len |-> tableIn.Len]
             w1 == setTable(w, name, tableOut)
             w2 == write(w1, SubSeq(buf, tableIn.Ptr + 1,
                                    tableIn.Ptr + tableIn.Len))
         IN  seekTo(w2, tableOut.Ptr + LenPadded(tableOut))

RECURSIVE copyAll(_, _, _, _)
copyAll(w, buf, T, i) ==
    IF i > Len(CopiedTables) THEN w
    ELSE copyAll(copy(w, buf, T[CopiedTables[i]], CopiedTables[i]),
                 buf, T, i + 1)

RECURSIVE SumSeq(_, _)
SumSeq(s, i) == IF i > Len(s) THEN 0 ELSE s[i] + SumSeq(s, i + 1)

\* tableCount of generate: 9 plus the optional tables of the source
tableCountOf(T) ==
    requiredTableCount + Cardinality({n \in OptionalTables : T[n].Ptr # 0})

\* the writer when generate calls genGlyfAndLoca
copyTables(out, buf, T) ==
    LET lenIndex == 12 + tableCountOf(T) * 16
        known == [i \in 1..Len(CopiedTables) |-> LenPadded(T[CopiedTables[i]])]
        w0 == ensureCapRemaining(NewWriter(out), lenIndex + SumSeq(known, 1))
    IN  copyAll(seekTo(w0, lenIndex), buf, T, 1)

\* BitSet.AsSlice: the members of a set in ascending order
RECURSIVE AsSlice(_)
AsSlice(set) ==
    IF set = {} THEN << >>
    ELSE LET m == CHOOSE x \in set : \A y \in set : x <= y
         IN  <<m>> \o AsSlice(set \ {m})

\* out = nil
NoOut == [cap |-> 0, fill |-> 0]

NoGen ==
    [chars |-> << >>, glyphIds |-> << >>, gidRemap |-> << >>,
     Tables |-> NoTables, writer |-> NewWriter(<< >>),
     seenGids |-> {}, gidStack |-> << >>, glyfs |-> << >>,
     tableCount |-> 0, indexToLocFormat |-> 0, metricCount |-> 0,
     out |-> NoOut]

NoRet == [subset |-> << >>, gidRemap |-> << >>, err |-> "none",
          chars |-> << >>, out |-> NoOut]

NoParse == [err |-> "none", font |-> ZeroFont]

----------------------------------------------------------------------------
(* Generator.genGlyfAndLoca: the glyph closure.                            *)

\* Reader.glyfLocation: [panic, offset, len] (the offsets of the source
\* fonts do not decrease, so the u32 difference does not wrap)
glyfLocation(buf, T, gid, locaFormat) ==
    LET at == T["loca"].Ptr + gid * (IF locaFormat = 0 THEN 2 ELSE 4)
    IN  IF locaFormat = 0
        THEN IF ~CanRead(buf, at, 4)
             THEN [panic |-> TRUE, offset |-> 0, len |-> 0]
             ELSE LET offset == PeekU16(buf, at) * 2
                  IN  [panic |-> FALSE, offset |-> offset,
                       len |-> PeekU16(buf, at + 2) * 2 - offset]
        ELSE IF ~CanRead(buf, at, 8)
             THEN [panic |-> TRUE, offset |-> 0, len |-> 0]
             ELSE LET offset == PeekU32(buf, at)
                  IN  [panic |-> FALSE, offset |-> offset,
                       len |-> PeekU32(buf, at + 4) - offset]

\* a skip that takes the two arguments for bytes whatever the flags say
componentSkipArgsAsBytes(flags) ==
    2 + (IF HasBit(flags, GlyfFlagWeHaveAScale) THEN 2
         ELSE IF HasBit(flags, GlyfFlagWeHaveAnXAndYScale) THEN 4
         ELSE IF HasBit(flags, GlyfFlagWeHaveATwoByTwo) THEN 8 ELSE 0)

\* bytes the walks skip after a component's glyph index when another
\* component follows
componentSkip(flags) ==
    2 + (IF HasBit(flags, GlyfFlagArg1And2AreWords) THEN 2 ELSE 0)
      + (IF HasBit(flags, GlyfFlagWeHaveAScale) THEN 2
         ELSE IF HasBit(flags, GlyfFlagWeHaveAnXAndYScale) THEN 4
         ELSE IF HasBit(flags, GlyfFlagWeHaveATwoByTwo) THEN 8 ELSE 0)

RECURSIVE closureWalkAlwaysQueues(_, _, _, _)
\* a component loop that queues every component, seen before or not
closureWalkAlwaysQueues(buf, pos, seen, stack) ==
    IF ~CanRead(buf, pos, 4)
    THEN [panic |-> TRUE, seen |-> seen, stack |-> stack]
    ELSE LET flags == PeekU16(buf, pos)
             componentGid == PeekU16(buf, pos + 2)
             seen1 == seen \cup {componentGid}
             stack1 == Append(stack, componentGid)
         IN  IF ~HasBit(flags, GlyfFlagMoreComponents)
             THEN [panic |-> FALSE, seen |-> seen1, stack |-> stack1]
             ELSE closureWalkAlwaysQueues(buf, pos + 4 + componentSkip(flags),
                                          seen1, stack1)

RECURSIVE closureWalk(_, _, _, _)
\* the component loop of the closure, reading the source file at pos:
\* [panic, seen, stack]
closureWalk(buf, pos, seen, stack) ==
    IF ~CanRead(buf, pos, 4)
    THEN [panic |-> TRUE, seen |-> seen, stack |-> stack]
    ELSE LET flags == PeekU16(buf, pos)
             componentGid == PeekU16(buf, pos + 2)
             fresh == componentGid \notin seen
             seen1 == seen \cup {componentGid}
             stack1 == IF fresh THEN Append(stack, componentGid) ELSE stack
         IN  IF ~HasBit(flags, GlyfFlagMoreComponents)
             THEN [panic |-> FALSE, seen |-> seen1, stack |-> stack1]
             ELSE closureWalk(buf, pos + 4 + componentSkip(flags),
                              seen1, stack1)

\* one iteration of the work-queue loop: [panic, gen]
closureVisit(g, buf, locaFormat) ==
    LET gid == Head(g.gidStack)
        rest == Tail(g.gidStack)
        loc == glyfLocation(buf, g.Tables, gid, locaFormat)
        ptr == g.Tables["glyf"].Ptr + loc.offset
        glyf == [gid |-> gid, len |-> loc.len, ptr |-> ptr]
        g1 == [g EXCEPT !.gidStack = rest,
                        !.glyfs = Append(g.glyfs, glyf),
                        !.writer.Tables["glyf"].Len =
                            @ + GlyfLenPadded(loc.len)]
    IN  IF loc.panic \/ ~CanRead(buf, ptr, 2) THEN [panic |-> TRUE, gen |-> g]
        ELSE IF PeekI16(buf, ptr) >= 0 THEN [panic |-> FALSE, gen |-> g1]
        ELSE LET r == closureWalk(buf, ptr + 10, g.seenGids, rest)
             IN  [panic |-> r.panic,
                  gen |-> [g1 EXCEPT !.seenGids = r.seen,
                                     !.gidStack = r.stack]]

\* the seen-set genGlyfAndLoca starts from: glyph 0 and the glyph of every
\* requested codepoint
seedGids(f, chars) == {0} \cup {GlyphId(f, chars[i]) : i \in 1..Len(chars)}

----------------------------------------------------------------------------
(* Generator.genGlyfAndLoca: renumbering, the glyf table and genLoca.      *)

\* g.gidRemap: one element per old glyph ID up to the largest of the
\* subset, holding the index of that ID in glyphIds (0 where there is none)
\* a renumbering that counts the new IDs from 1
gidRemapFromOne(glyphIds) ==
    [i \in 1..(glyphIds[Len(glyphIds)] + 1) |->
        IF \E k \in 1..Len(glyphIds) : glyphIds[k] = i - 1
        THEN CHOOSE k \in 1..Len(glyphIds) : glyphIds[k] = i - 1
        ELSE 0]

\* a renumbering that skips the new ID after that of glyph 0
gidRemapWithGap(glyphIds) ==
    [i \in 1..(glyphIds[Len(glyphIds)] + 1) |->
        IF i > 1 /\ \E k \in 1..Len(glyphIds) : glyphIds[k] = i - 1
        THEN CHOOSE k \in 1..Len(glyphIds) : glyphIds[k] = i - 1
        ELSE 0]

gidRemapOf(glyphIds) ==
    [i \in 1..(glyphIds[Len(glyphIds)] + 1) |->
        IF \E k \in 1..Len(glyphIds) : glyphIds[k] = i - 1
        THEN (CHOOSE k \in 1..Len(glyphIds) : glyphIds[k] = i - 1) - 1
        ELSE 0]

\* slices.SortFunc(glyfs, ...): the entries in the order of their new IDs
sortGlyfs(glyfs, glyphIds) ==
    [k \in 1..Len(glyfs) |->
        CHOOSE e \in {glyfs[j] : j \in 1..Len(glyfs)} : e.gid = glyphIds[k]]

RECURSIVE patchWalkKeepsOldIds(_, _, _, _, _)
\* a component loop that checks the glyph indexes and leaves them as copied
patchWalkKeepsOldIds(w, ptrGlyf, glyfLen, pos, gidRemap) ==
    IF pos + 2 > glyfLen \/ ptrGlyf + pos + 4 > Len(w.buf)
    THEN [w EXCEPT !.panic = TRUE]
    ELSE LET flags == PeekU16(w.buf, ptrGlyf + pos)
             componentGid == PeekU16(w.buf, ptrGlyf + pos + 2)
         IN  IF componentGid >= Len(gidRemap)
                \/ ptrGlyf + pos + 4 > w.pos
             THEN [w EXCEPT !.panic = TRUE]
             ELSE IF ~HasBit(flags, GlyfFlagMoreComponents) THEN w
             ELSE patchWalkKeepsOldIds(w, ptrGlyf, glyfLen,
                                       pos + 4 + componentSkip(flags),
                                       gidRemap)

RECURSIVE patchWalk(_, _, _, _, _)
\* the component loop over the copied glyph: glyfReader reads the writer's
\* array from ptrGlyf on, a read may start anywhere up to the glyph's length
\* and reach up to the capacity, a store must lie in w.buf[:w.pos]
patchWalk(w, ptrGlyf, glyfLen, pos, gidRemap) ==
    IF pos + 2 > glyfLen \/ ptrGlyf + pos + 4 > Len(w.buf)
    THEN [w EXCEPT !.panic = TRUE]
    ELSE LET flags == PeekU16(w.buf, ptrGlyf + pos)
             componentGid == PeekU16(w.buf, ptrGlyf + pos + 2)
         IN  IF componentGid >= Len(gidRemap)
                \/ ptrGlyf + pos + 4 > w.pos
             THEN [w EXCEPT !.panic = TRUE]
             ELSE LET w1 == [w EXCEPT !.buf =
                                StoreAt(w.buf, ptrGlyf + pos + 2,
                                        BytesU16(gidRemap[componentGid + 1]))]
                  IN  IF ~HasBit(flags, GlyfFlagMoreComponents) THEN w1
                      ELSE patchWalk(w1, ptrGlyf, glyfLen,
                                     pos + 4 + componentSkip(flags), gidRemap)

\* one iteration of the loop that copies the glyphs
writeGlyf(w, buf, glyf, gidRemap) ==
    IF w.panic THEN w
    ELSE IF ~CanRead(buf, glyf.ptr, glyf.len) THEN [w EXCEPT !.panic = TRUE]
    ELSE
    LET ptrGlyf == w.pos
        w1 == write(w, SubSeq(buf, glyf.ptr + 1, glyf.ptr + glyf.len))
    IN  IF w1.panic THEN w1
        ELSE IF ptrGlyf + 2 > Len(w1.buf) THEN [w1 EXCEPT !.panic = TRUE]
        ELSE IF PeekI16(w1.buf, ptrGlyf) >= 0
        THEN seekTo(w1, ptrGlyf + GlyfLenPadded(glyf.len))
        ELSE seekTo(patchWalk(w1, ptrGlyf, glyf.len, 10, gidRemap),
                    ptrGlyf + GlyfLenPadded(glyf.len))

RECURSIVE writeGlyfs(_, _, _, _, _)
writeGlyfs(w, buf, glyfs, i, gidRemap) ==
    IF i > Len(glyfs) THEN w
    ELSE writeGlyfs(writeGlyf(w, buf, glyfs[i], gidRemap),
                    buf, glyfs, i + 1, gidRemap)

RECURSIVE locaOffsets(_, _, _)
\* the cumulative offsets genLoca writes, glyphCount + 1 of them
locaOffsets(glyfs, i, nextOffset) ==
    IF i > Len(glyfs) THEN <<nextOffset>>
    ELSE <<nextOffset>>
            \o locaOffsets(glyfs, i + 1,
                           nextOffset + GlyfLenPadded(glyfs[i].len))

\* Writer.u16Array: the bytes of the u16 values of s from element i on
FlatU16(s, i) ==
    IF i > Len(s) THEN << >>
    ELSE [j \in 1..(2 * (Len(s) - i + 1)) |->
             BytesU16(s[i + (j - 1) \div 2] % 65536)[2 - (j % 2)]]

RECURSIVE FlatU32(_, _)
FlatU32(s, i) ==
    IF i > Len(s) THEN << >> ELSE BytesU32(s[i]) \o FlatU32(s, i + 1)

locaFormatOfByteOffsets(glyfLen) == IF glyfLen > 65535 * 4 THEN 1 ELSE 0

\* loca format genLoca chooses from the length of the glyf table
locaFormatOf(glyfLen) == IF glyfLen > 65535 * 2 THEN 1 ELSE 0

\* Generator.genLoca: the writer after it
genLoca(w, glyfs) ==
    LET locaFormat == locaFormatOf(w.Tables["glyf"].Len)
        stride == IF locaFormat = 0 THEN 2 ELSE 4
        t == [Ptr |-> w.pos, Len |-> (Len(glyfs) + 1) * stride]
        offs == locaOffsets(glyfs, 1, 0)
        body == IF locaFormat = 0
                THEN FlatU16([k \in 1..Len(offs) |-> offs[k] \div 2], 1)
                ELSE FlatU32(offs, 1)
        w1 == ensureCapRemaining(setTable(w, "loca", t), LenPadded(t))
    IN  seekTo(write(w1, body), t.Ptr + LenPadded(t))

\* genGlyfAndLoca from the end of the closure loop on: [panic, gen]
renumberAndWrite(g, buf) ==
    LET glyphIds == AsSlice(g.seenGids)
        gidRemap == gidRemapOf(glyphIds)
        glyfs == sortGlyfs(g.glyfs, glyphIds)
        glyfT == g.writer.Tables["glyf"]
        tableLenPadded == LenPadded(glyfT)
        w1 == ensureCapRemaining(g.writer, tableLenPadded)
        w2 == writeGlyfs(w1, buf, glyfs, 1, gidRemap)
        w3 == seekTo(w2, glyfT.Ptr + tableLenPadded)
        w4 == genLoca(w3, glyfs)
    IN  IF Cardinality(g.seenGids) # Len(g.glyfs)
        THEN [panic |-> TRUE, gen |-> g]
        ELSE [panic |-> w4.panic,
              gen |-> [g EXCEPT !.glyphIds = glyphIds,
                                !.gidRemap = gidRemap,
                                !.glyfs = glyfs,
                                !.writer = w4,
                                !.indexToLocFormat =
                                    locaFormatOf(glyfT.Len)]]

----------------------------------------------------------------------------
(* Generator.genCmap                                                       *)

RECURSIVE FloorLog2(_)
\* math.Floor(math.Log2(n)) for n >= 1
FloorLog2(n) == IF n <= 1 THEN 0 ELSE 1 + FloorLog2(n \div 2)

RECURSIVE Pow2(_)
Pow2(n) == IF n = 0 THEN 1 ELSE 2 * Pow2(n - 1)

\* deltas[0] of genCmap: 1 - startCodes[0] in u16 arithmetic
firstDelta(startCode) == WrapU16(1 - startCode + 65536)

startsSegmentAtEveryChar(char, charPrev) ==
    WrapU16(char - charPrev + 65536) >= 1

\* the test that ends the current segment before char
startsSegment(char, charPrev) == WrapU16(char - charPrev + 65536) > 1

\* the segment the loop opens at chars[i]: startCodes[seg] = char and
\* deltas[seg] = gidNew - char, but deltas[0] = 1 - startCodes[0]
segmentAt(f, gidRemap, chars, i) ==
    LET char == chars[i] % 65536
        gidNew == gidRemap[GlyphId(f, char) + 1]
    IN  [start |-> char, end |-> char,
         delta |-> IF i = 1 THEN firstDelta(char)
                   ELSE WrapU16(gidNew - char + 65536)]

RECURSIVE cmapSegments(_, _, _, _, _)
\* the loop over g.chars[lo..hi]: the segments [start, end, delta] before
\* the final one.  The loop is evaluated by halves: the segments of the two
\* halves follow each other when the loop's test starts a segment at the
\* first codepoint of the second half, otherwise the last segment of the
\* first half runs on to the end of the first segment of the second.
cmapSegments(f, gidRemap, chars, lo, hi) ==
    IF lo = hi THEN << segmentAt(f, gidRemap, chars, lo) >>
    ELSE LET mid == (lo + hi) \div 2
             L == cmapSegments(f, gidRemap, chars, lo, mid)
             R == cmapSegments(f, gidRemap, chars, mid + 1, hi)
             n == Len(L)
         IN  IF startsSegment(chars[mid + 1] % 65536, chars[mid] % 65536)
             THEN L \o R
             ELSE SubSeq(L, 1, n - 1)
                  \o << [L[n] EXCEPT !.end = R[1].end] >>
                  \o Tail(R)

\* Generator.genCmap: the writer after it
genCmap(g, f) ==
    IF g.glyphIds[1] # 0 \/ Len(g.chars) = 0
    THEN [g.writer EXCEPT !.panic = TRUE]
    ELSE
    LET first == g.chars[1] % 65536
        \* gidNew := g.gidRemap[gidOld] is evaluated for every codepoint;
        \* runs is << >> when one index is past the end of gidRemap
        runs == IF \E i \in 1..Len(g.chars) :
                      GlyphId(f, g.chars[i] % 65536) >= Len(g.gidRemap)
                THEN << >>
                ELSE cmapSegments(f, g.gidRemap, g.chars, 1, Len(g.chars))
        segs == Append(runs, [start |-> 65535, end |-> 65535, delta |-> 1])
        segCount == Len(segs)
        segCount2x == 2 * segCount
        mappingTableLen == 14 + segCount2x * 4 + 2
        t == [Ptr |-> g.writer.pos, Len |-> 4 + 8 + mappingTableLen]
        searchRange == 2 * Pow2(FloorLog2(segCount))
        w1 == ensureCapRemaining(setTable(g.writer, "cmap", t), LenPadded(t))
        body ==
            BytesU16(0) \o BytesU16(1)
            \o BytesU16(platformMicrosoft) \o BytesU16(codeMsUnicodeBmp)
            \o BytesU32(4 + 8)
            \o BytesU16(cmapFormat4) \o BytesU16(mappingTableLen)
            \o BytesU16(0) \o BytesU16(segCount2x)
            \o BytesU16(searchRange)
            \o BytesU16(FloorLog2(searchRange \div 2))
            \o BytesU16(segCount2x - searchRange)
            \o FlatU16([k \in 1..segCount |-> segs[k].end], 1)
            \o BytesU16(0)
            \o FlatU16([k \in 1..segCount |-> segs[k].start], 1)
            \o FlatU16([k \in 1..segCount |-> segs[k].delta], 1)
    IN  IF runs = << >> \/ segCount > SegArrayLen
        THEN [g.writer EXCEPT !.panic = TRUE]
        ELSE seekTo(skip(write(w1, body), segCount2x), t.Ptr + LenPadded(t))

----------------------------------------------------------------------------
(* Generator.genPost                                                       *)

genPost(g, buf) ==
    LET t == [Ptr |-> g.writer.pos, Len |-> 32]
        w1 == ensureCapRemaining(setTable(g.writer, "post", t), LenPadded(t))
        at == g.Tables["post"].Ptr + 4
    IN  IF ~CanRead(buf, at, 12) THEN [g.writer EXCEPT !.panic = TRUE]
        ELSE seekTo(skip(write(write(w1, BytesU32(196608)),
                               SubSeq(buf, at + 1, at + 12)), 16),
                    t.Ptr + LenPadded(t))

----------------------------------------------------------------------------
(* Generator.genHmtx                                                       *)

\* the 1-based index in glyphIds at which the first loop stops: the first
\* glyph whose old ID is not below metricCountOrig, else the last glyph
firstLoopEnd(glyphIds, metricCountOrig) ==
    IF \E k \in 1..Len(glyphIds) : glyphIds[k] >= metricCountOrig
    THEN CHOOSE k \in 1..Len(glyphIds) :
            /\ glyphIds[k] >= metricCountOrig
            /\ \A j \in 1..(k - 1) : glyphIds[j] < metricCountOrig
    ELSE Len(glyphIds)

\* where the first loop reads the width and bearing of old glyph gid
longMetricPtr(T, gid) == T["hmtx"].Ptr + gid * 4

\* where the second loop reads the bearing of old glyph gid
bearingPtr(T, metricCountOrig, gid, lastWidthGid) ==
    T["hmtx"].Ptr + metricCountOrig * 4 + (gid - lastWidthGid) * 2

\* the value genHmtx returns: i + 1 of the first loop plus i + 1 after the
\* second loop, where i keeps its value when the second loop has no
\* iteration
metricCountOf(n, stop) ==
    WrapU16(stop + (IF n > stop THEN n - stop ELSE stop))

\* Generator.genHmtx: [writer, metricCount]
genHmtx(g, buf, metricCountOrig) ==
    LET n == Len(g.glyphIds)
        t == [Ptr |-> g.writer.pos, Len |-> n * 4]
        w1 == ensureCapRemaining(setTable(g.writer, "hmtx", t), LenPadded(t))
        stop == firstLoopEnd(g.glyphIds, metricCountOrig)
        lastWidthGid == g.glyphIds[stop]
        longAt(k) == longMetricPtr(g.Tables, g.glyphIds[k])
        bearingAt(k) ==
            bearingPtr(g.Tables, metricCountOrig, g.glyphIds[k], lastWidthGid)
        readsOk ==
            /\ \A k \in 1..stop : CanRead(buf, longAt(k), 4)
            /\ \A k \in (stop + 1)..n : CanRead(buf, bearingAt(k), 2)
        lastWidth == PeekU16(buf, longAt(stop))
        entry(k) ==
            IF k <= stop THEN SubSeq(buf, longAt(k) + 1, longAt(k) + 4)
            ELSE BytesU16(lastWidth)
                    \o SubSeq(buf, bearingAt(k) + 1, bearingAt(k) + 2)
        body == [j \in 1..(4 * n) |-> entry((j + 3) \div 4)[((j - 1) % 4) + 1]]
    IN  IF ~readsOk
        THEN [writer |-> [g.writer EXCEPT !.panic = TRUE], metricCount |-> 0]
        ELSE [writer |-> seekTo(write(w1, body), t.Ptr + LenPadded(t)),
              metricCount |-> metricCountOf(n, stop)]

----------------------------------------------------------------------------
(* Generator.editHead, editHhea, editMaxp                                  *)

editHead(w, indexToLocFormat) ==
    LET w1 == write(seekTo(w, w.Tables["head"].Ptr + 8), BytesU32(0))
    IN  write(seekTo(w1, w.Tables["head"].Ptr + 50),
              BytesU16(indexToLocFormat))

editHhea(w, metricCount) ==
    write(seekTo(w, w.Tables["hhea"].Ptr + 34), BytesU16(metricCount))

editMaxp(w, glyphIds) ==
    write(seekTo(w, w.Tables["maxp"].Ptr + 4), BytesU16(Len(glyphIds)))

----------------------------------------------------------------------------
(* Generator.genIndex                                                      *)

\* the order of the directory entries: required, then optional tables
IndexOrder ==
    <<"cmap", "glyf", "head", "hhea", "hmtx", "loca", "maxp", "name", "post",
      "cvt", "fpgm", "gasp", "os2", "prep">>

RECURSIVE SumHalves(_, _, _, _)
\* sum of the u16 at start + off, start + off + 4, ... of nLongs words
SumHalves(buf, start, off, nLongs) ==
    IF nLongs = 0 THEN 0
    ELSE PeekU16(buf, start + off)
            + SumHalves(buf, start + 4, off, nLongs - 1)

\* the big-endian bytes of the sum modulo 2^32 of the nLongs 32-bit words
\* of buf from position start on
SumWords(buf, start, nLongs) ==
    LET lo == SumHalves(buf, start, 2, nLongs)
        hi == SumHalves(buf, start, 0, nLongs) + lo \div 65536
    IN  BytesU16(hi % 65536) \o BytesU16(lo % 65536)

\* where genIndexEntry starts summing for a table: ptrChecksum := 0
ptrChecksum(table) == 0

\* Generator.genIndexEntry
genIndexEntry(w, name) ==
    LET table == w.Tables[name]
        nLongs == (table.Len + 3) \div 4
    IN  IF table.Ptr = 0 \/ w.panic THEN w
        ELSE IF ptrChecksum(table) + 4 * nLongs > Len(w.buf)
        THEN [w EXCEPT !.panic = TRUE]
        ELSE write(w, BytesU32(TagOf(name))
                        \o SumWords(w.buf, ptrChecksum(table), nLongs)
                        \o BytesU32(table.Ptr) \o BytesU32(table.Len))

RECURSIVE genIndexEntries(_, _)
genIndexEntries(w, i) ==
    IF i > Len(IndexOrder) THEN w
    ELSE genIndexEntries(genIndexEntry(w, IndexOrder[i]), i + 1)

\* Generator.genIndex
genIndex(w, tableCount) ==
    LET entrySelector == FloorLog2(tableCount)
        searchRange == 16 * Pow2(entrySelector)
        w1 == write(seekTo(w, 0),
                    BytesU32(TagTrueType) \o BytesU16(tableCount)
                    \o BytesU16(searchRange) \o BytesU16(entrySelector)
                    \o BytesU16(tableCount * 16 - searchRange))
    IN  genIndexEntries(w1, 1)

----------------------------------------------------------------------------
(* ScratchPad (scratch.go): measures text as it would be laid out on lines *)
(* of a given width, without drawing it.  A text is a sequence of          *)
(* codepoints.  The pad's font stays the one it was created with, of size  *)
(* FontSizePt; glyph widths are in 1/1000 of the font size.  The float32   *)
(* fields x and widthLongestLine are kept in 1/1000 pt (a width in units   *)
(* times FontSizePt), y and the line heights in whole points.              *)

\* sc.font.fontSizePt of the font the pad measures with
FontSizePt == 10

\* the codepoints of the texts: '\n', ' ', 'a' and U+4E2D
Char == [newline |-> 10, space |-> 32, letter |-> 97, han |-> 20013]
PadChars == {Char.newline, Char.space, Char.letter, Char.han}

\* unicode.IsSpace(char), on PadChars
IsSpace(char) == char \in {Char.newline, Char.space}

isChinese(char) == char >= 19968 /\ char <= 40869

\* utf8.RuneLen(char): the bytes of char in the Go string
RuneLen(char) ==
    IF char < 128 THEN 1
    ELSE IF char < 2048 THEN 2
    ELSE IF char < 65536 THEN 3
    ELSE 4

\* sc.f.fonts.Get(sc.font.id).GlyphWidthOnly(char) of the pad's font
GlyphWidthOnly(char) ==
    IF char = Char.letter THEN 200
    ELSE IF char = Char.han THEN 300
    ELSE 100

\* the byte index of element i of text in the Go string, len(text) for
\* i = Len(text) + 1
RECURSIVE ByteIndex(_, _)
ByteIndex(text, i) ==
    IF i <= 1 THEN 0 ELSE ByteIndex(text, i - 1) + RuneLen(text[i - 1])

\* uint16(math.Ceil(float64(width * 1000 / fontSizePt)))
widthCharMaxOf(width) ==
    WrapU16((width * 1000 + FontSizePt - 1) \div FontSizePt)

NoPad ==
    [width |-> 0, widthLongestLine |-> 0, x |-> 0, y |-> 0,
     widthBreakChar |-> 0, widthCharsLine |-> 0, widthCharMax |-> 0,
     widthCharsPreBreak |-> 0]

\* f.Scratch(width) followed by its SetFont
Scratch(width) ==
    [NoPad EXCEPT !.width = width, !.widthCharMax = widthCharMaxOf(width)]

\* sc.Ln(height)
Ln(sc, height) ==
    [sc EXCEPT !.widthCharsLine = 0, !.widthCharsPreBreak = 0,
               !.widthBreakChar = 0, !.x = 0, !.y = sc.y + height]

\* sc.Reset(width)
Reset(sc, width) ==
    [sc EXCEPT !.width = width, !.widthBreakChar = 0, !.widthCharsLine = 0,
               !.widthCharsPreBreak = 0, !.widthLongestLine = 0,
               !.x = 0, !.y = 0, !.widthCharMax = widthCharMaxOf(width)]

\* One pass of the loop of Text over element i of text.  l holds the pad
\* and the locals ixBreak, ixAfterBreak, ixLine and lines; a line is the
\* pair <<from, to>> of the slice text[from:to], and slicing with
\* from > to panics.
textChar(l, text, i, lnHeight) ==
    LET sc == l.sc
        char == text[i]
        ixChar == ByteIndex(text, i)
        widthChar == WrapU16(GlyphWidthOnly(char))
        line == WrapU16(sc.widthCharsLine + widthChar)
        isSpace == IsSpace(char)
        atBreak == isSpace \/ isChinese(char)
        preBreak == IF ~atBreak THEN sc.widthCharsPreBreak
                    ELSE IF isSpace THEN WrapU16(line - widthChar)
                    ELSE line
        breakChar == IF isSpace THEN widthChar ELSE sc.widthBreakChar
        ixBreak == IF atBreak THEN ixChar ELSE l.ixBreak
        ixAfterBreak == IF ~atBreak THEN l.ixAfterBreak
                        ELSE IF isSpace THEN ixChar + RuneLen(char)
                        ELSE ixChar
        seen == [sc EXCEPT !.widthCharsLine = line,
                           !.widthCharsPreBreak = preBreak,
                           !.widthBreakChar = breakChar]
        here == [l EXCEPT !.sc = seen, !.ixBreak = ixBreak,
                          !.ixAfterBreak = ixAfterBreak]
    IN  IF ~(char = Char.newline \/ line > sc.widthCharMax) THEN here
        ELSE IF preBreak = 0 /\ sc.x = 0 /\ char # Char.newline THEN here
        ELSE IF l.ixLine > ixBreak THEN [here EXCEPT !.panic = TRUE]
        ELSE [here EXCEPT
                !.sc = [seen EXCEPT
                    !.y = sc.y + lnHeight,
                    !.widthCharsLine =
                        WrapU16(line - WrapU16(preBreak + breakChar)),
                    !.widthLongestLine =
                        Max(sc.widthLongestLine, preBreak * FontSizePt),
                    !.widthCharsPreBreak = 0,
                    !.widthBreakChar = 0],
                !.lines = Append(l.lines, <<l.ixLine, ixBreak>>),
                !.ixLine = ixAfterBreak,
                !.ixBreak = 0]

RECURSIVE textLoop(_, _, _, _)
textLoop(l, text, i, lnHeight) ==
    IF i > Len(text) \/ l.panic THEN l
    ELSE textLoop(textChar(l, text, i, lnHeight), text, i + 1, lnHeight)

textLocalsOnFreshLine(sc) ==
    [sc |-> [sc EXCEPT !.widthCharsLine = 0], ixBreak |-> 0,
     ixAfterBreak |-> 0, ixLine |-> 0, lines |-> << >>, panic |-> FALSE]

\* the pad and the locals of Text when its loop begins
textLocals(sc) ==
    [sc |-> sc, ixBreak |-> 0, ixAfterBreak |-> 0, ixLine |-> 0,
     lines |-> << >>, panic |-> FALSE]

\* sc.Text(lnHeight, text): the pad afterwards, the lines returned, and
\* whether the call panicked
Text(sc, lnHeight, text) ==
    LET l == textLoop(textLocals(sc), text, 1, lnHeight)
        len == ByteIndex(text, Len(text) + 1)
        x == l.sc.widthCharsLine * FontSizePt
    IN  IF l.panic THEN l
        ELSE [l EXCEPT
                !.lines = IF len - l.ixLine > 0
                          THEN Append(l.lines, <<l.ixLine, len>>)
                          ELSE l.lines,
                !.sc = [l.sc EXCEPT
                    !.x = x,
                    !.widthLongestLine = Max(x, l.sc.widthLongestLine)]]

\* the width of a text in glyph units: the sum of its glyph widths
RECURSIVE TextWidth(_)
TextWidth(text) ==
    IF text = << >> THEN 0
    ELSE GlyphWidthOnly(Head(text)) + TextWidth(Tail(text))

\* What a reader of the calls knows of the current line without any rule
\* of line breaking: the characters since the last '\n', Ln or Reset, as
\* long as they never exceeded the line; wide is set once they did.
RECURSIVE lineSince(_, _, _, _)
lineSince(cur, text, i, max) ==
    IF i > Len(text) THEN cur
    ELSE IF text[i] = Char.newline
    THEN lineSince([chars |-> << >>, wide |-> FALSE], text, i + 1, max)
    ELSE LET chars == Append(cur.chars, text[i])
         IN  lineSince([chars |-> chars,
                        wide |-> cur.wide \/ TextWidth(chars) > max],
                       text, i + 1, max)

EmptyLine == [chars |-> << >>, wide |-> FALSE]

NoLog ==
    [op |-> "none", text |-> << >>, lnHeight |-> 0, before |-> NoPad,
     lines |-> << >>, calls |-> 0, lineBefore |-> EmptyLine,
     line |-> EmptyLine]

\* the widths of the pads, in points
PadWidths == {1, 2, 4}
\* the line heights of the calls, in points
LnHeights == {15}
MaxTextLen == 2
MaxPadCalls == 2
Texts == UNION {[1..k -> PadChars] : k \in 0..MaxTextLen}

----------------------------------------------------------------------------
(* FontSet (ttf/set.go): the fonts of a document, each a key and the Font  *)
(* that Parse filled.  An Id is the index of its entry, from 0.            *)

\* strings.ToLower(family), on the family names used
ToLower(family) ==
    CASE family = "Arial" -> "arial"
      [] family = "ARIAL" -> "arial"
      [] OTHER -> family

\* NewFontSet(capacity), with no call made on it yet
NoSet == [fonts |-> << >>, op |-> "none", before |-> << >>, id |-> 0,
          err |-> ""]

\* f.AddTtf(family, style, bytes)
AddTtf(f, family, style, bytes) ==
    LET id == Len(f.fonts)
        r == Parse(bytes)
        info == [key |-> [Family |-> ToLower(family), Style |-> style],
                 font |-> r.font]
    IN  [fonts |-> Append(f.fonts, info),
         op |-> IF r.err = "panic" THEN "panic" ELSE "AddTtf",
         before |-> f.fonts, id |-> id, err |-> r.err]

----------------------------------------------------------------------------
(* Xobjects (xobject.go): form templates of a Scribe document.  An xobject *)
(* holds the content stream its drawing function produced; putXobjects     *)
(* writes one PDF object for every xobject that was used.  A written       *)
(* object is its number, whether its dictionary has the entry              *)
(* /Filter /FlateDecode, its /Length and the bytes of its stream.          *)

\* xmem.compress(buffer): a zlib stream, here its two header bytes, the
\* data, and a one byte checksum of the data
Deflate(bytes) == <<120, 156>> \o bytes \o <<SumSeq(bytes, 1) % 251>>

\* a Scribe with the compression flag f.compress and no xobject
NewDoc(compress) ==
    [compress |-> compress, xobjects |-> << >>, xobjectsUsed |-> << >>,
     page |-> << >>, n |-> 0, objects |-> << >>, closed |-> FALSE]

NoDoc == NewDoc(FALSE)

\* f.XobjectCreate(params, fn), where fn draws the bytes content
XobjectCreate(f, params, content) ==
    [f EXCEPT
        !.xobjects = Append(@, [compress |-> params.Compress,
                                name |-> params.Name,
                                buf |-> content, id |-> 0]),
        !.xobjectsUsed = Append(@, FALSE)]

\* f.XobjectUse(x, pos): the page draws the template and marks it used
XobjectUse(f, index) ==
    [f EXCEPT !.page = Append(@, f.xobjects[index + 1].name),
              !.xobjectsUsed[index + 1] = TRUE]

RECURSIVE putXobjectsFrom(_, _)
\* the loop of putXobjects from xobject i on
putXobjectsFrom(f, i) ==
    IF i > Len(f.xobjects) THEN f
    ELSE IF ~f.xobjectsUsed[i] THEN putXobjectsFrom(f, i + 1)
    ELSE LET n == f.n + 1
             buffer == IF f.xobjects[i].compress \/ f.compress
                       THEN Deflate(f.xobjects[i].buf)
                       ELSE f.xobjects[i].buf
             obj == [n |-> n, filter |-> f.compress,
                     length |-> Len(buffer), stream |-> buffer]
         IN  putXobjectsFrom([f EXCEPT !.n = n,
                                       !.xobjects[i].id = n,
                                       !.objects = Append(@, obj)],
                             i + 1)

\* f.putXobjects()
putXobjects(f) == putXobjectsFrom(f, 1)

----------------------------------------------------------------------------
(* The caller: one source font, parsed once; Generate is called on it with *)
(* a set of codepoints and an out buffer, its output is parsed again, and  *)
(* the caller keeps the result of the previous call.                       *)

\* The out buffers a caller passes: nil, or the array of an earlier use,
\* of capacity cap and holding the byte fill everywhere.
StaleBytes == {0, 255}
Outs == {NoOut} \cup [cap : {OutCap}, fill : StaleBytes]
OutBuffer(o) == Fill(o.cap, o.fill)

Init ==
    /\ cfg \in Configs
    /\ fontBytes = FontBytes(cfg)
    /\ font = ZeroFont
    /\ parseErr = "none"
    /\ phase = "start"
    /\ gen = NoGen
    /\ ret = NoRet
    /\ reparsed = NoParse
    /\ last = NoRet
    /\ pad = NoPad
    /\ padLog = NoLog
    /\ fontSet = NoSet
    /\ doc = NoDoc

\* Parse(fontBytes, &font)
ParseSource ==
    /\ phase = "start"
    /\ LET r == Parse(fontBytes)
       IN  /\ font' = r.font
           /\ parseErr' = r.err
           /\ phase' = IF r.err = "panic" THEN "panic" ELSE "idle"
    /\ UNCHANGED <<cfg, fontBytes, gen, ret, reparsed, last>>
    /\ UNCHANGED <<padVars, fontSet, doc>>

\* Generate(fontBytes, &font, chars, out) up to the closure loop of
\* genGlyfAndLoca
generateStart(f, buf, chars, out) ==
    LET idx == parseIndex(buf)
        w == copyTables(OutBuffer(out), buf, idx.Tables)
        seen == seedGids(f, chars)
    IN  [NoGen EXCEPT
           !.chars = chars,
           !.out = out,
           !.Tables = idx.Tables,
           !.tableCount = tableCountOf(idx.Tables),
           !.writer = setTable(w, "glyf", [Ptr |-> w.pos, Len |-> 0]),
           !.seenGids = seen,
           !.gidStack = AsSlice(seen)]

GenerateCall ==
    /\ phase = "idle"
    /\ \E cs \in SUBSET Codepoints, out \in Outs :
          LET idx == parseIndex(fontBytes)
              g == generateStart(font, fontBytes, AsSlice(cs), out)
          IN  IF idx.err # ""
              THEN /\ phase' = IF idx.err = "panic" THEN "panic" ELSE "done"
                   /\ ret' = [NoRet EXCEPT !.err = idx.err,
                                           !.chars = AsSlice(cs),
                                           !.out = out]
                   /\ gen' = NoGen
              ELSE /\ phase' = IF g.writer.panic THEN "panic" ELSE "closure"
                   /\ gen' = g
                   /\ ret' = NoRet
    /\ reparsed' = NoParse
    /\ UNCHANGED <<cfg, fontBytes, font, parseErr, last>>
    /\ UNCHANGED <<padVars, fontSet, doc>>

\* one iteration of the closure loop
ClosureStep ==
    /\ phase = "closure"
    /\ gen.gidStack # << >>
    /\ LET r == closureVisit(gen, fontBytes, font.LocaFormat)
       IN  /\ gen' = r.gen
           /\ phase' = IF r.panic THEN "panic" ELSE "closure"
    /\ UNCHANGED <<cfg, fontBytes, font, parseErr, ret, reparsed, last>>
    /\ UNCHANGED <<padVars, fontSet, doc>>

\* the rest of genGlyfAndLoca, with genLoca
WriteGlyfAndLoca ==
    /\ phase = "closure"
    /\ gen.gidStack = << >>
    /\ LET r == renumberAndWrite(gen, fontBytes)
       IN  /\ gen' = r.gen
           /\ phase' = IF r.panic THEN "panic" ELSE "cmap"
    /\ UNCHANGED <<cfg, fontBytes, font, parseErr, ret, reparsed, last>>
    /\ UNCHANGED <<padVars, fontSet, doc>>

GenCmap ==
    /\ phase = "cmap"
    /\ LET w == genCmap(gen, font)
       IN  /\ gen' = [gen EXCEPT !.writer = w]
           /\ phase' = IF w.panic THEN "panic" ELSE "post"
    /\ UNCHANGED <<cfg, fontBytes, font, parseErr, ret, reparsed, last>>
    /\ UNCHANGED <<padVars, fontSet, doc>>

GenPost ==
    /\ phase = "post"
    /\ LET w == genPost(gen, fontBytes)
       IN  /\ gen' = [gen EXCEPT !.writer = w]
           /\ phase' = IF w.panic THEN "panic" ELSE "hmtx"
    /\ UNCHANGED <<cfg, fontBytes, font, parseErr, ret, reparsed, last>>
    /\ UNCHANGED <<padVars, fontSet, doc>>

GenHmtx ==
    /\ phase = "hmtx"
    /\ LET r == genHmtx(gen, fontBytes, font.MetricCount)
       IN  /\ gen' = [gen EXCEPT !.writer = r.writer,
                                 !.metricCount = r.metricCount]
           /\ phase' = IF r.writer.panic THEN "panic" ELSE "edit"
    /\ UNCHANGED <<cfg, fontBytes, font, parseErr, ret, reparsed, last>>
    /\ UNCHANGED <<padVars, fontSet, doc>>

\* an edit step that also stores the subset's glyph count in the font
EditTablesWritingFont ==
    /\ phase = "edit"
    /\ LET w == editMaxp(editHhea(editHead(gen.writer, gen.indexToLocFormat),
                                  gen.metricCount),
                         gen.glyphIds)
       IN  /\ gen' = [gen EXCEPT !.writer = w]
           /\ phase' = IF w.panic THEN "panic" ELSE "index"
    /\ font' = [font EXCEPT !.GlyphCount = Len(gen.glyphIds)]
    /\ UNCHANGED <<cfg, fontBytes, parseErr, ret, reparsed, last>>
    /\ UNCHANGED <<padVars, fontSet, doc>>

\* editHead, editHhea, editMaxp
EditTables ==
    /\ phase = "edit"
    /\ LET w == editMaxp(editHhea(editHead(gen.writer, gen.indexToLocFormat),
                                  gen.metricCount),
                         gen.glyphIds)
       IN  /\ gen' = [gen EXCEPT !.writer = w]
           /\ phase' = IF w.panic THEN "panic" ELSE "index"
    /\ UNCHANGED <<cfg, fontBytes, font, parseErr, ret, reparsed, last>>
    /\ UNCHANGED <<padVars, fontSet, doc>>

\* genIndex and the return of generate
GenIndex ==
    /\ phase = "index"
    /\ LET w == genIndex(gen.writer, gen.tableCount)
       IN  /\ gen' = [gen EXCEPT !.writer = w]
           /\ IF w.panic
              THEN phase' = "panic" /\ ret' = ret
              ELSE /\ phase' = "done"
                   /\ ret' = [subset |-> Bytes(w), gidRemap |-> gen.gidRemap,
                              err |-> "", chars |-> gen.chars,
                              out |-> gen.out]
    /\ UNCHANGED <<cfg, fontBytes, font, parseErr, reparsed, last>>
    /\ UNCHANGED <<padVars, fontSet, doc>>

\* Parse(subset, &font2) on the bytes Generate returned
ParseSubset ==
    /\ phase = "done"
    /\ ret.err = ""
    /\ reparsed = NoParse
    /\ reparsed' = Parse(ret.subset)
    /\ UNCHANGED <<cfg, fontBytes, font, parseErr, phase, gen, ret,
                   last>>
    /\ UNCHANGED <<padVars, fontSet, doc>>

\* the caller keeps the result and is ready for the next call
Return ==
    /\ phase = "done"
    /\ phase' = "idle"
    /\ last' = ret
    /\ gen' = NoGen
    /\ ret' = NoRet
    /\ reparsed' = NoParse
    /\ UNCHANGED <<cfg, fontBytes, font, parseErr>>
    /\ UNCHANGED <<padVars, fontSet, doc>>

Next ==
    \/ ParseSource
    \/ GenerateCall
    \/ ClosureStep
    \/ WriteGlyfAndLoca
    \/ GenCmap
    \/ GenPost
    \/ GenHmtx
    \/ EditTables
    \/ GenIndex
    \/ ParseSubset
    \/ Return

Spec == Init /\ [][Next]_vars

\* Generate up to the end of genGlyfAndLoca.  generate runs on one
\* goroutine: an iteration of the closure loop that can run does run.
ClosureNext ==
    \/ ParseSource
    \/ GenerateCall
    \/ ClosureStep
    \/ WriteGlyfAndLoca

\* Generate is one synchronous call: once genGlyfAndLoca has started, its
\* loop body and the code after the loop run without waiting on anything.
\* That is weak fairness of the loop body and of the code after the loop.
\* The code after the loop is enabled exactly when the loop has ended
\* (phase = "closure" with an empty gidStack) and its step changes phase,
\* so its fairness is written with that guard in place of ENABLED.
ClosureFair ==
    /\ WF_vars(ClosureStep)
    /\ \/ []<>(~(phase = "closure" /\ gen.gidStack = << >>))
       \/ []<><<WriteGlyfAndLoca>>_vars

ClosureSpec ==
    /\ Init
    /\ [][ClosureNext]_vars
    /\ ClosureFair

----------------------------------------------------------------------------
(* The caller of a ScratchPad: creates the pad, then calls Text, Ln and    *)
(* Reset on it in any order.                                               *)

PadInit ==
    /\ cfg = SoundConfig
    /\ fontBytes = << >>
    /\ font = ZeroFont
    /\ parseErr = "none"
    /\ phase = "pad"
    /\ gen = NoGen
    /\ ret = NoRet
    /\ reparsed = NoParse
    /\ last = NoRet
    /\ pad \in {Scratch(width) : width \in PadWidths}
    /\ padLog = NoLog
    /\ fontSet = NoSet
    /\ doc = NoDoc

\* sc.Text(lnHeight, text)
PadText ==
    /\ padLog.op # "panic"
    /\ padLog.calls < MaxPadCalls
    /\ \E lnHeight \in LnHeights, text \in Texts :
         LET r == Text(pad, lnHeight, text)
         IN  /\ pad' = r.sc
             /\ padLog' = [op |-> IF r.panic THEN "panic" ELSE "Text",
                           text |-> text, lnHeight |-> lnHeight,
                           before |-> pad, lines |-> r.lines,
                           calls |-> padLog.calls + 1,
                           lineBefore |-> padLog.line,
                           line |-> lineSince(padLog.line, text, 1,
                                              pad.widthCharMax)]
    /\ UNCHANGED <<ttfVars, fontSet, doc>>

\* sc.Ln(height)
PadLn ==
    /\ padLog.op # "panic"
    /\ padLog.calls < MaxPadCalls
    /\ \E height \in LnHeights :
         /\ pad' = Ln(pad, height)
         /\ padLog' = [NoLog EXCEPT !.op = "Ln", !.lnHeight = height,
                                    !.before = pad,
                                    !.calls = padLog.calls + 1,
                                    !.lineBefore = padLog.line]
    /\ UNCHANGED <<ttfVars, fontSet, doc>>

\* sc.Reset(width)
PadReset ==
    /\ padLog.op # "panic"
    /\ padLog.calls < MaxPadCalls
    /\ \E width \in PadWidths :
         /\ pad' = Reset(pad, width)
         /\ padLog' = [NoLog EXCEPT !.op = "Reset", !.before = pad,
                                    !.calls = padLog.calls + 1,
                                    !.lineBefore = padLog.line]
    /\ UNCHANGED <<ttfVars, fontSet, doc>>

PadNext ==
    \/ PadText
    \/ PadLn
    \/ PadReset

PadSpec == PadInit /\ [][PadNext]_vars

----------------------------------------------------------------------------
(* genLoca on its own: the glyf entries of a closure, of any lengths, also *)
(* those of a glyf table past the reach of the short format.  The writer   *)
(* holds only the loca table; of the glyf table it carries the length that *)
(* the closure loop summed.                                                *)

\* the lengths of the glyf records, around the limits of the short format
LocaLens == {0, 1, 4, 65534, 65535, 65536}
MaxLocaGlyphs == 3

LocaInit ==
    /\ cfg = SoundConfig
    /\ fontBytes = << >>
    /\ font = ZeroFont
    /\ parseErr = "none"
    /\ phase = "loca"
    /\ gen = NoGen
    /\ ret = NoRet
    /\ reparsed = NoParse
    /\ last = NoRet
    /\ pad = NoPad
    /\ padLog = NoLog
    /\ fontSet = NoSet
    /\ doc = NoDoc

\* one more pass of the closure loop: glyfs = append(glyfs, glyf) and
\* g.writer.Tables.Glyf.Len += glyf.lenPadded()
LocaAddGlyph ==
    /\ phase = "loca"
    /\ Len(gen.glyfs) < MaxLocaGlyphs
    /\ \E len \in LocaLens :
         gen' = [gen EXCEPT
                   !.glyfs = Append(@, [gid |-> Len(gen.glyfs),
                                        len |-> len, ptr |-> 0]),
                   !.writer.Tables["glyf"].Len = @ + GlyfLenPadded(len)]
    /\ UNCHANGED <<cfg, fontBytes, font, parseErr, phase, ret, reparsed, last>>
    /\ UNCHANGED <<padVars, fontSet, doc>>

\* g.genLoca(glyfs), and the format it returns
LocaGen ==
    /\ phase = "loca"
    /\ phase' = "locaDone"
    /\ gen' = [gen EXCEPT
                 !.writer = genLoca(gen.writer, gen.glyfs),
                 !.indexToLocFormat =
                     locaFormatOf(gen.writer.Tables["glyf"].Len)]
    /\ UNCHANGED <<cfg, fontBytes, font, parseErr, ret, reparsed, last>>
    /\ UNCHANGED <<padVars, fontSet, doc>>

LocaNext ==
    \/ LocaAddGlyph
    \/ LocaGen

\* Generate on the source fonts, and genLoca on glyf entries of any length
InitWithLoca == Init \/ LocaInit
NextWithLoca == Next \/ LocaNext
SpecWithLoca == InitWithLoca /\ [][NextWithLoca]_vars

----------------------------------------------------------------------------
(* The caller of a FontSet: adds font files, sound and defective ones.     *)

\* the font files handed to AddTtf: a sound one, one without glyf table,
\* one that forbids embedding and one with an unknown version
SetConfigs ==
    {SoundConfig,
     [SoundConfig EXCEPT !.missing = "glyf"],
     [SoundConfig EXCEPT !.fsType = 2],
     [SoundConfig EXCEPT !.badVersion = TRUE]}
Families == {"Arial", "arial"}
Styles == {0, 1}
MaxFonts == 3

SetInit ==
    /\ cfg = SoundConfig
    /\ fontBytes = << >>
    /\ font = ZeroFont
    /\ parseErr = "none"
    /\ phase = "set"
    /\ gen = NoGen
    /\ ret = NoRet
    /\ reparsed = NoParse
    /\ last = NoRet
    /\ pad = NoPad
    /\ padLog = NoLog
    /\ fontSet = NoSet
    /\ doc = NoDoc

\* f.AddTtf(family, style, bytes)
SetAddTtf ==
    /\ fontSet.op # "panic"
    /\ Len(fontSet.fonts) < MaxFonts
    /\ \E c \in SetConfigs, family \in Families, style \in Styles :
         fontSet' = AddTtf(fontSet, family, style, FontBytes(c))
    /\ UNCHANGED <<ttfVars, padVars, doc>>

SetNext == SetAddTtf

SetSpec == SetInit /\ [][SetNext]_vars

----------------------------------------------------------------------------
(* The caller of the xobjects: creates templates, uses some of them on the *)
(* page, and closes the document, which writes the used ones.              *)

\* the content streams the drawing functions produce
Contents == {<<113, 81>>, <<113, 32, 81>>}
MaxXobjects == 2

DocInit ==
    /\ cfg = SoundConfig
    /\ fontBytes = << >>
    /\ font = ZeroFont
    /\ parseErr = "none"
    /\ phase = "doc"
    /\ gen = NoGen
    /\ ret = NoRet
    /\ reparsed = NoParse
    /\ last = NoRet
    /\ pad = NoPad
    /\ padLog = NoLog
    /\ fontSet = NoSet
    /\ doc \in {NewDoc(compress) : compress \in BOOLEAN}

\* f.XobjectCreate(params, fn)
DocXobjectCreate ==
    /\ ~doc.closed
    /\ Len(doc.xobjects) < MaxXobjects
    /\ \E compress \in BOOLEAN, content \in Contents :
         doc' = XobjectCreate(doc,
                              [Name |-> Len(doc.xobjects),
                               Compress |-> compress],
                              content)
    /\ UNCHANGED <<ttfVars, padVars, fontSet>>

\* f.XobjectUse(x, pos)
DocXobjectUse ==
    /\ ~doc.closed
    /\ Len(doc.page) < MaxXobjects
    /\ \E index \in 0..(Len(doc.xobjects) - 1) :
         doc' = XobjectUse(doc, index)
    /\ UNCHANGED <<ttfVars, padVars, fontSet>>

\* closing the document: f.putXobjects()
DocPutXobjects ==
    /\ ~doc.closed
    /\ doc' = [putXobjects(doc) EXCEPT !.closed = TRUE]
    /\ UNCHANGED <<ttfVars, padVars, fontSet>>

DocNext ==
    \/ DocXobjectCreate
    \/ DocXobjectUse
    \/ DocPutXobjects

DocSpec == DocInit /\ [][DocNext]_vars

----------------------------------------------------------------------------
(* genCmap and parseCmap on requests and subtables of many segments: the   *)
(* requested codepoints are first, first + stride, ..., none of them       *)
(* adjacent, so each is a run of its own; the file holds a format 4        *)
(* subtable with one segment per codepoint and the final segment.          *)

MaxRuns == 513
SegRunCounts == (1..8) \cup {MaxRuns - 2, MaxRuns - 1, MaxRuns}
SegFirstChars == {256, 4096}
SegStrides == {2, 3}

SparseChars(first, stride, n) == [k \in 1..n |-> first + stride * (k - 1)]

\* a file of 12 zero bytes and a cmap table whose Microsoft/BMP subtable
\* maps every codepoint of chars to glyph 0 through a segment of its own
SegCmapFile(chars) ==
    LET n == Len(chars)
        segCount == n + 1
        codes == chars \o <<65535>>
        deltas == [k \in 1..segCount |->
                      IF k <= n THEN WrapU16(65536 - chars[k]) ELSE 1]
        searchRange == 2 * Pow2(FloorLog2(segCount))
    IN  Zeros(12)
        \o BytesU16(0) \o BytesU16(1)
        \o BytesU16(platformMicrosoft) \o BytesU16(codeMsUnicodeBmp)
        \o BytesU32(12)
        \o BytesU16(cmapFormat4) \o BytesU16(16 + 8 * segCount)
        \o BytesU16(0) \o BytesU16(2 * segCount)
        \o BytesU16(searchRange)
        \o BytesU16(FloorLog2(searchRange \div 2))
        \o BytesU16(2 * segCount - searchRange)
        \o FlatU16(codes, 1) \o BytesU16(0) \o FlatU16(codes, 1)
        \o FlatU16(deltas, 1) \o Zeros(2 * segCount)

SegTables(buf) ==
    [NoTables EXCEPT !["cmap"] = [Ptr |-> 12, Len |-> Len(buf) - 12]]

\* the generator as genGlyfAndLoca leaves it when every requested
\* codepoint maps to glyph 0, and the file to parse
SegInit ==
    /\ \E first \in SegFirstChars, stride \in SegStrides, n \in SegRunCounts :
          LET chars == SparseChars(first, stride, n)
          IN  /\ gen = [NoGen EXCEPT !.chars = chars,
                                     !.glyphIds = <<0>>,
                                     !.gidRemap = <<0>>]
              /\ fontBytes = SegCmapFile(chars)
    /\ cfg = SoundConfig
    /\ font = ZeroFont
    /\ parseErr = "none"
    /\ phase = "seg"
    /\ ret = NoRet
    /\ reparsed = NoParse
    /\ last = NoRet
    /\ pad = NoPad
    /\ padLog = NoLog
    /\ fontSet = NoSet
    /\ doc = NoDoc

\* g.genCmap()
SegGenCmap ==
    /\ phase = "seg"
    /\ gen' = [gen EXCEPT !.writer = genCmap(gen, font)]
    /\ phase' = "segGen"
    /\ UNCHANGED <<cfg, fontBytes, font, parseErr, ret, reparsed, last>>
    /\ UNCHANGED <<padVars, fontSet, doc>>

\* p.parseCmap()
SegParseCmap ==
    /\ phase = "seg"
    /\ reparsed' = parseCmap(font, fontBytes, SegTables(fontBytes))
    /\ phase' = "segParse"
    /\ UNCHANGED <<cfg, fontBytes, font, parseErr, gen, ret, last>>
    /\ UNCHANGED <<padVars, fontSet, doc>>

SegNext ==
    \/ SegGenCmap
    \/ SegParseCmap

SegSpec == SegInit /\ [][SegNext]_vars

----------------------------------------------------------------------------
(* What the claims are stated over: the finished call, the bytes it        *)
(* returned as a font reader decodes them, and the source font as its      *)
(* description defines it.                                                 *)

\* a Generate call has returned without error
Done == phase = "done" /\ ret.err = ""

\* the requested codepoints of the call in progress or just finished
Requested == {gen.chars[i] : i \in 1..Len(gen.chars)}

\* the old glyph IDs of the subset
SubsetGids == {gen.glyphIds[k] : k \in 1..Len(gen.glyphIds)}

ComponentGids(layout, g) ==
    {Components(layout, g)[j][2] : j \in 1..Len(Components(layout, g))}

RECURSIVE Reach(_, _)
\* the glyphs reachable from S through component references
Reach(layout, S) ==
    LET T == S \cup UNION {ComponentGids(layout, g) : g \in S}
    IN  IF T = S THEN S ELSE Reach(layout, T)

RECURSIVE ComponentFieldAt(_, _)
\* position in the glyf record of the glyph index of component j
ComponentFieldAt(comps, j) ==
    IF j = 1 THEN 12
    ELSE ComponentFieldAt(comps, j - 1) + 4
            + ComponentTrailerLen(comps[j - 1][1] + 32)

\* the directory of the returned bytes
OutTables == parseIndex(ret.subset).Tables

\* offset in the output glyf table of new glyph k, from the output loca
\* table in the format head.indexToLocFormat announces
OutLocaOffset(k) ==
    IF PeekU16(ret.subset, OutTables["head"].Ptr + 50) = 0
    THEN 2 * PeekU16(ret.subset, OutTables["loca"].Ptr + 2 * k)
    ELSE PeekU32(ret.subset, OutTables["loca"].Ptr + 4 * k)

\* the glyf record of new glyph k in the returned bytes
OutGlyph(k) ==
    SubSeq(ret.subset, OutTables["glyf"].Ptr + OutLocaOffset(k) + 1,
           OutTables["glyf"].Ptr + OutLocaOffset(k + 1))

\* new glyph k holds the record of old glyph g, component glyph indexes
\* aside
CopiedFrom(k, g) ==
    LET src == GlyphBytes(cfg.layout, g)
        out == OutGlyph(k)
        comps == Components(cfg.layout, g)
        fields == UNION {{ComponentFieldAt(comps, j) + 1,
                          ComponentFieldAt(comps, j) + 2} : j \in 1..Len(comps)}
    IN  /\ Len(out) >= Len(src)
        /\ Len(out) <= Len(src) + 1
        /\ \A i \in 1..Len(src) : i \notin fields => out[i] = src[i]

----------------------------------------------------------------------------
\* C1: when Generate returns, the glyph of every requested codepoint and
\* every glyph reachable from it through component references, at any depth,
\* has an entry in gidRemap, and the record at its new ID in the generated
\* glyf table holds its bytes.
C1_ClosureInSubset ==
    Done =>
        \A g \in Reach(cfg.layout, {GlyphId(font, c) : c \in Requested}) :
            /\ g < Len(ret.gidRemap)
            /\ ret.gidRemap[g + 1] < Len(gen.glyphIds)
            /\ gen.glyphIds[ret.gidRemap[g + 1] + 1] = g
            /\ CopiedFrom(ret.gidRemap[g + 1], g)

\* a call returned for a codepoint whose glyph is a composite of a composite
C1_Witness ==
    /\ Done
    /\ \E c \in Requested :
          \E h \in ComponentGids(cfg.layout, GlyphId(font, c)) :
              /\ IsComposite(cfg.layout, h)
              /\ ComponentGids(cfg.layout, h) \ {GlyphId(font, c)} # {}

\* C2: when Generate returns, every component glyph index of every composite
\* glyph of the generated glyf table is gidRemap of the component's old ID,
\* is below the subset's glyph count, and is the new ID of the record copied
\* from the old component glyph.
C2_ComponentIdsRemapped ==
    Done =>
        \A k \in 1..Len(gen.glyphIds) :
            LET comps == Components(cfg.layout, gen.glyphIds[k])
            IN  \A j \in 1..Len(comps) :
                    LET old == comps[j][2]
                        new == PeekU16(OutGlyph(k - 1),
                                       ComponentFieldAt(comps, j))
                    IN  /\ old < Len(ret.gidRemap)
                        /\ new = ret.gidRemap[old + 1]
                        /\ new < Len(gen.glyphIds)
                        /\ gen.glyphIds[new + 1] = old
                        /\ CopiedFrom(new, old)

\* a call returned a composite glyph one of whose components changed its ID
C2_Witness ==
    /\ Done
    /\ \E g \in SubsetGids :
          \E old \in ComponentGids(cfg.layout, g) :
              /\ old < Len(ret.gidRemap)
              /\ ret.gidRemap[old + 1] # old

\* C3: when the bytes Generate returned parse again, the new font maps each
\* requested codepoint c to gidRemap[font.GlyphId(c)].
C3_ReparsedLookups ==
    (Done /\ reparsed.err = "") =>
        \A c \in Requested :
            GlyphId(reparsed.font, c) = ret.gidRemap[GlyphId(font, c) + 1]

\* position in the returned bytes of directory entry i, counted from 0
OutIndexEntry(i) == 12 + 16 * i

\* C4: when Generate returns, the checksum field of every directory entry
\* is the sum modulo 2^32 of the big-endian 32-bit words of the returned
\* bytes from the entry's offset over its length padded to four bytes.
C4_IndexChecksums ==
    Done =>
        \A i \in 0..(PeekU16(ret.subset, 4) - 1) :
            LET e == OutIndexEntry(i)
                offset == PeekU32(ret.subset, e + 8)
                length == PeekU32(ret.subset, e + 12)
            IN  SubSeq(ret.subset, e + 5, e + 8)
                    = SumWords(ret.subset, offset, (length + 3) \div 4)

\* the advance width of new glyph k in the generated hmtx table
OutAdvanceWidth(k) == PeekU16(ret.subset, OutTables["hmtx"].Ptr + 4 * k)

\* the advance width of the last long metric of the source font
SharedAdvanceWidth ==
    PeekU16(fontBytes,
            parseIndex(fontBytes).Tables["hmtx"].Ptr
                + 4 * (font.MetricCount - 1))

\* C5: when the source font has fewer long metrics than glyphs and Generate
\* returns, every subset glyph whose old ID is at or above the source's
\* number of long metrics has the source's shared final advance width in
\* the generated hmtx table.
C5_SharedAdvanceWidth ==
    (Done /\ font.MetricCount < font.GlyphCount) =>
        \A k \in 1..Len(gen.glyphIds) :
            gen.glyphIds[k] >= font.MetricCount
                => OutAdvanceWidth(k - 1) = SharedAdvanceWidth

\* C6: when Generate returns, the first subset glyph is old glyph 0 and
\* gidRemap maps old glyph 0 to new glyph 0, whether or not a requested
\* codepoint maps to glyph 0.
C6_GlyphZeroFirst ==
    Done =>
        /\ gen.glyphIds[1] = 0
        /\ ret.gidRemap[1] = 0
        /\ CopiedFrom(0, 0)

\* a call returned none of whose codepoints maps to glyph 0
C6_Witness ==
    /\ Done
    /\ \A c \in Requested : GlyphId(font, c) # 0
    /\ Len(gen.glyphIds) > 1

\* C7: when Generate returns a subset of N glyphs, gidRemap gives them the
\* new IDs 0..N-1 without gap or repeat, in the order of their old IDs, the
\* generated maxp table counts N glyphs, and gidRemap has one element more
\* than the largest old ID of the subset.
C7_DenseOrderedRemap ==
    Done =>
        LET N == Cardinality(gen.seenGids)
        IN  /\ SubsetGids = gen.seenGids
            /\ \A g \in gen.seenGids : g < Len(ret.gidRemap)
            /\ {ret.gidRemap[g + 1] : g \in gen.seenGids} = 0..(N - 1)
            /\ \A a, b \in gen.seenGids :
                  a < b => ret.gidRemap[a + 1] < ret.gidRemap[b + 1]
            /\ PeekU16(ret.subset, OutTables["maxp"].Ptr + 4) = N
            /\ \E g \in gen.seenGids :
                  /\ \A h \in gen.seenGids : h <= g
                  /\ Len(ret.gidRemap) = g + 1

\* a call returned a subset that leaves out some old glyph below its largest
C7_Witness ==
    /\ Done
    /\ Cardinality(gen.seenGids) >= 3
    /\ Len(ret.gidRemap) > Cardinality(gen.seenGids)

\* the scalar metrics of a font: the scale, the vertical metrics, the
\* underline and strikeout geometry, the bounding box, the style flags and
\* the weight class
ScalarMetrics(f) ==
    [Scale |-> f.Scale, Ascent |-> f.Ascent, Descent |-> f.Descent,
     CapHeight |-> f.CapHeight, ItalicAngle |-> f.ItalicAngle,
     UnderlinePos |-> f.UnderlinePos, UnderlineSize |-> f.UnderlineSize,
     StrikeoutPos |-> f.StrikeoutPos, StrikeoutSize |-> f.StrikeoutSize,
     Bounds |-> f.Bounds, Flags |-> f.Flags, WeightClass |-> f.WeightClass]

\* C8: Parse of the bytes a Generate call returned succeeds and yields the
\* scalar metrics of the source font.
C8_ReparsedMetrics ==
    (Done /\ reparsed # NoParse) =>
        /\ reparsed.err = ""
        /\ ScalarMetrics(reparsed.font) = ScalarMetrics(font)

\* C9: from the moment Parse has filled it, the font is what Parse made of
\* the source bytes: no step of any Generate call, first or later, changes
\* a field of it.
C9_FontUnchanged ==
    phase # "start" => font = Parse(fontBytes).font

\* a second call on the same font has returned after a first one with other
\* codepoints
C9_Witness ==
    /\ Done
    /\ last.err = ""
    /\ last.chars # ret.chars

\* C10: a Generate call with the font bytes and codepoints of the call
\* before it returns the same bytes and the same gidRemap, whatever the out
\* buffer of either call held.
C10_SameInputsSameOutput ==
    (Done /\ last.err = "" /\ last.chars = ret.chars) =>
        /\ ret.subset = last.subset
        /\ ret.gidRemap = last.gidRemap

\* C11: the bytes Generate returns end at the writer's high-water mark,
\* the padded end of the last table written, wherever the cursor stands and
\* whatever capacity the buffer has.
C11_EndsAtHighWaterMark ==
    Done =>
        /\ Len(ret.subset) = gen.writer.len
        /\ Len(ret.subset) =
              OutTables["hmtx"].Ptr + LenPadded(OutTables["hmtx"])

\* C12: when Generate returns, every table of the output directory starts
\* at a multiple of 4 after the directory, its length field is the length
\* of its content without padding, and the table ends within the output.
C12_TablesAlignedInBounds ==
    Done =>
        LET count == PeekU16(ret.subset, 4)
            N == Len(gen.glyphIds)
            src == parseIndex(fontBytes).Tables
            content(name) ==
                CASE name = "glyf" -> OutLocaOffset(N)
                  [] name = "loca" ->
                        (N + 1) * (IF PeekU16(ret.subset,
                                        OutTables["head"].Ptr + 50) = 0
                                   THEN 2 ELSE 4)
                  [] name = "cmap" ->
                        12 + PeekU16(ret.subset, OutTables["cmap"].Ptr + 14)
                  [] name = "post" -> 32
                  [] name = "hmtx" -> 4 * N
                  [] OTHER -> src[name].Len
        IN  \A i \in 0..(count - 1) :
                LET e == OutIndexEntry(i)
                    offset == PeekU32(ret.subset, e + 8)
                    length == PeekU32(ret.subset, e + 12)
                IN  /\ offset % 4 = 0
                    /\ offset >= 12 + 16 * count
                    /\ offset + length <= Len(ret.subset)
                    /\ \E name \in TableNames :
                          /\ TagOf(name) = PeekU32(ret.subset, e)
                          /\ length = content(name)

\* a call returned a table whose content length is no multiple of 4 and
\* that is not the last one of the file
C12_Witness ==
    /\ Done
    /\ \E name \in TableNames :
          /\ OutTables[name].Ptr # 0
          /\ OutTables[name].Len % 4 # 0
          /\ \E other \in TableNames :
                OutTables[other].Ptr > OutTables[name].Ptr

\* C13: when Generate returns, the numberOfHMetrics of the output hhea
\* table is at least 1 and at most the numGlyphs of the output maxp table.
C13_MetricCountWithinGlyphCount ==
    Done =>
        LET metrics == PeekU16(ret.subset, OutTables["hhea"].Ptr + 34)
            glyphs == PeekU16(ret.subset, OutTables["maxp"].Ptr + 4)
        IN  metrics >= 1 /\ metrics <= glyphs

\* the source file has a version tag other than 'true' and 0x00010000, or
\* lacks one of the nine tables cmap, glyf, head, hhea, hmtx, loca, maxp,
\* name, post
Defective ==
    \/ PeekU32(fontBytes, 0) \notin {1953658213, 65536}
    \/ \E n \in {"cmap", "glyf", "head", "hhea", "hmtx", "loca", "maxp",
                 "name", "post"} :
          \A i \in 0..(PeekU16(fontBytes, 4) - 1) :
              PeekU32(fontBytes, OutIndexEntry(i)) # TagOf(n)

\* C14: for a source whose version tag is unknown or that lacks a required
\* table, Parse returns an error and Generate returns an error with no
\* bytes and no remap; a source that lacks only optional tables makes
\* neither fail.
C14_DefectiveSourceRejected ==
    /\ (phase # "start" /\ Defective) => parseErr \notin {"", "none", "panic"}
    /\ (phase = "done" /\ Defective) =>
          /\ ret.err \notin {"", "none", "panic"}
          /\ ret.subset = << >>
          /\ ret.gidRemap = << >>
    /\ (phase # "start" /\ ~Defective /\ cfg.fsType = 8) => parseErr = ""
    /\ (phase = "done" /\ ~Defective) => ret.err = ""

\* Generate has returned for a source without glyf table
C14_Witness ==
    /\ phase = "done"
    /\ Defective
    /\ cfg.missing = "glyf"
    /\ ret.chars # << >>

\* the fsType of the source's OS/2 table has bit 1 (0x0002, restricted
\* license) or bit 9 (0x0200, bitmap embedding only) set
EmbeddingForbidden ==
    LET fsType == PeekU16(fontBytes, parseIndex(fontBytes).Tables["os2"].Ptr + 8)
    IN  (fsType \div 2) % 2 = 1 \/ (fsType \div 512) % 2 = 1

\* C15: Parse of a font with an OS/2 table returns an error when fsType has
\* bit 1 or bit 9 set, and accepts the font when it has neither.
C15_FsTypeRejection ==
    (phase # "start" /\ ~Defective
        /\ parseIndex(fontBytes).Tables["os2"].Ptr # 0)
        => ((parseErr # "") <=> EmbeddingForbidden)

\* the bytes of table t of buffer buf
TableBytes(buf, t) == SubSeq(buf, t.Ptr + 1, t.Ptr + t.Len)

\* C16: when Generate returns, the table count of the output header is 9
\* plus the number of optional tables of the source, the directory has that
\* many entries of distinct tables, and each optional table is in the output
\* exactly when it is in the source, with the same bytes.
C16_OptionalTablesCopied ==
    Done =>
        LET src == parseIndex(fontBytes).Tables
            count == PeekU16(ret.subset, 4)
            optional == {"cvt", "fpgm", "gasp", "os2", "prep"}
            tags == {PeekU32(ret.subset, OutIndexEntry(i)) :
                        i \in 0..(count - 1)}
        IN  /\ count = 9 + Cardinality({n \in optional : src[n].Ptr # 0})
            /\ Cardinality(tags) = count
            /\ tags = {TagOf(n) : n \in {m \in TableNames :
                                            OutTables[m].Ptr # 0}}
            /\ \A n \in optional :
                  /\ (OutTables[n].Ptr # 0) <=> (src[n].Ptr # 0)
                  /\ src[n].Ptr # 0 =>
                        TableBytes(ret.subset, OutTables[n])
                            = TableBytes(fontBytes, src[n])

\* a call returned for a source that has all five optional tables
C16_Witness ==
    /\ Done
    /\ cfg.optional
    /\ PeekU16(ret.subset, 4) = 14
    /\ ret.chars # << >>

----------------------------------------------------------------------------
(* ScratchPad claims, over the last call on the pad (padLog) and the pad   *)
(* after it.                                                               *)

\* the characters of the current line before the last call were all seen
\* since the last '\n', Ln or Reset and fit on the line
LineKnownBefore == ~padLog.lineBefore.wide

NoNewline(text) == \A i \in 1..Len(text) : text[i] # Char.newline

\* the last call was a Text whose text has no '\n' and, appended to the
\* current line, does not exceed the width of the pad
TextFits ==
    /\ padLog.op = "Text"
    /\ LineKnownBefore
    /\ NoNewline(padLog.text)
    /\ TextWidth(padLog.lineBefore.chars \o padLog.text)
            <= padLog.before.widthCharMax

LineAndText == padLog.lineBefore.chars \o padLog.text

\* the first character of LineAndText with which the line is too wide
FirstOver ==
    CHOOSE k \in 1..Len(LineAndText) :
        /\ TextWidth(SubSeq(LineAndText, 1, k)) > padLog.before.widthCharMax
        /\ \A h \in 1..(k - 1) :
             TextWidth(SubSeq(LineAndText, 1, h))
                 <= padLog.before.widthCharMax

\* the spaces of the line before the character FirstOver
SpacesSeen == {j \in 1..(FirstOver - 1) : LineAndText[j] = Char.space}

LastSpace == CHOOSE j \in SpacesSeen : \A h \in SpacesSeen : h <= j

\* what follows the last space seen, to the end of the text
AfterLastSpace == SubSeq(LineAndText, LastSpace + 1, Len(LineAndText))

\* the last call was a Text without '\n' that made the line too wide with
\* an ordinary character, after a space of that line which is the latest
\* place to break, and what follows that space fits on a line
OverflowAfterSpace ==
    /\ padLog.op \in {"Text", "panic"}
    /\ LineKnownBefore
    /\ NoNewline(padLog.text)
    /\ TextWidth(LineAndText) > padLog.before.widthCharMax
    /\ ~IsSpace(LineAndText[FirstOver])
    /\ ~isChinese(LineAndText[FirstOver])
    /\ SpacesSeen # {}
    /\ \A h \in (LastSpace + 1)..(FirstOver - 1) : ~isChinese(LineAndText[h])
    /\ TextWidth(AfterLastSpace) <= padLog.before.widthCharMax

\* C18: when a text overflows the line after a space was seen earlier on
\* that line, Text takes exactly one line break, at that space: y grows by
\* the line height and x becomes the width of the text after the space.
C18_BreakAtSpace ==
    OverflowAfterSpace =>
        /\ padLog.op = "Text"
        /\ pad.y = padLog.before.y + padLog.lnHeight
        /\ pad.x = TextWidth(AfterLastSpace) * FontSizePt

\* the same holds of a space that is not the first character of its line:
\* the break is left out only when nothing but the space precedes it
BreakAtInnerSpace ==
    (OverflowAfterSpace /\ LastSpace > 1) =>
        /\ padLog.op = "Text"
        /\ pad.y = padLog.before.y + padLog.lnHeight
        /\ pad.x = TextWidth(AfterLastSpace) * FontSizePt

----------------------------------------------------------------------------
(* The cmap of the output, as a font reader decodes its format 4 subtable, *)
(* which follows the header and the one encoding record of the table.      *)

OutCmapSub == OutTables["cmap"].Ptr + 12

OutSegCount == PeekU16(ret.subset, OutCmapSub + 6) \div 2

\* segment i of the output cmap, from 0; the last one is the sentinel
OutEndCode(i) == PeekU16(ret.subset, OutCmapSub + 14 + 2 * i)
OutStartCode(i) ==
    PeekU16(ret.subset, OutCmapSub + 16 + 2 * OutSegCount + 2 * i)
OutIdDelta(i) ==
    PeekU16(ret.subset, OutCmapSub + 16 + 4 * OutSegCount + 2 * i)

\* the new ID of the glyph of codepoint c, gidRemap[font.GlyphId(c)]
NewGid(c) == ret.gidRemap[GlyphId(font, c) + 1]

RequestedOfRet == {ret.chars[i] : i \in 1..Len(ret.chars)}

\* C19: every non-sentinel segment of the output cmap, the first included,
\* has idDelta = (gidRemap[font.GlyphId(startCode)] - startCode) mod 0x10000.
C19_SegmentDeltas ==
    (Done /\ parseErr = "") =>
        \A i \in 0..(OutSegCount - 2) :
            OutIdDelta(i) =
                WrapU16(NewGid(OutStartCode(i)) - OutStartCode(i) + 65536)

\* C20: no segment of the output cmap spans two consecutive requested
\* codepoints c and c+1 whose new glyph IDs are not consecutive.
C20_SegmentsContiguousInGids ==
    (Done /\ parseErr = "") =>
        \A i \in 0..(OutSegCount - 2) :
            \A c \in RequestedOfRet :
                (/\ c + 1 \in RequestedOfRet
                 /\ OutStartCode(i) <= c
                 /\ c + 1 <= OutEndCode(i))
                    => NewGid(c + 1) = NewGid(c) + 1

\* the maximal runs <<lo, hi>> of consecutive requested codepoints
RequestedRuns ==
    {r \in RequestedOfRet \X RequestedOfRet :
        /\ r[1] <= r[2]
        /\ \A c \in r[1]..r[2] : c \in RequestedOfRet
        /\ r[1] - 1 \notin RequestedOfRet
        /\ r[2] + 1 \notin RequestedOfRet}

\* every maximal run of requested codepoints maps to consecutive new IDs
RunsConsecutiveInGids ==
    \A c \in RequestedOfRet :
        c + 1 \in RequestedOfRet => NewGid(c + 1) = NewGid(c) + 1

\* C21: when every maximal run of consecutive requested codepoints maps to
\* consecutive new glyph IDs, the output cmap has one segment per maximal
\* run, in ascending order, then the one final segment [0xFFFF, 0xFFFF]
\* whose idDelta takes 0xFFFF to glyph 0; segCountX2, searchRange,
\* entrySelector and rangeShift are those of that segment count.
C21_OneSegmentPerRun ==
    (Done /\ parseErr = "" /\ RunsConsecutiveInGids) =>
        LET n == OutSegCount
            searchRange == PeekU16(ret.subset, OutCmapSub + 8)
            entrySelector == PeekU16(ret.subset, OutCmapSub + 10)
            rangeShift == PeekU16(ret.subset, OutCmapSub + 12)
        IN  /\ n = Cardinality(RequestedRuns) + 1
            /\ PeekU16(ret.subset, OutCmapSub + 6) = 2 * n
            /\ \A i \in 0..(n - 2) :
                 /\ <<OutStartCode(i), OutEndCode(i)>> \in RequestedRuns
                 /\ i > 0 => OutStartCode(i) > OutEndCode(i - 1)
            /\ OutStartCode(n - 1) = 65535
            /\ OutEndCode(n - 1) = 65535
            /\ (65535 + OutIdDelta(n - 1)) % 65536 = 0
            /\ \E e \in 0..15 :
                 /\ 2 ^ e <= n
                 /\ n < 2 ^ (e + 1)
                 /\ searchRange = 2 * 2 ^ e
                 /\ entrySelector = e
            /\ rangeShift = 2 * n - searchRange

\* the codepoints A, B and a of a font that maps A and B to neighbours
C21_Witness ==
    /\ Done
    /\ parseErr = ""
    /\ RunsConsecutiveInGids
    /\ ret.chars = <<65, 66, 97>>
    /\ OutSegCount = 3
    /\ OutEndCode(0) = 66

\* the bytes the first k glyf records take in the glyf table, each padded
\* to an even length
RECURSIVE PaddedLenSum(_, _)
PaddedLenSum(glyfs, k) ==
    IF k = 0 THEN 0
    ELSE PaddedLenSum(glyfs, k - 1) + 2 * ((glyfs[k].len + 1) \div 2)

\* head.indexToLocFormat of the output
OutLocFormat == PeekU16(ret.subset, OutTables["head"].Ptr + 50)

\* C22: decoded in the format head.indexToLocFormat names, the output loca
\* table has glyphCount + 1 ascending offsets; entries k and k + 1 delimit,
\* inside the output glyf table, the record of new glyph k, which is the
\* source record of its old glyph with at most one pad byte; and the short
\* format is written only when every offset / 2 fits in 16 bits.
C22_LocaDelimitsGlyphs ==
    /\ phase = "locaDone" =>
        LET w == gen.writer
            N == Len(gen.glyfs)
            short == gen.indexToLocFormat = 0
            entry(k) == IF short
                        THEN 2 * PeekU16(w.buf, w.Tables["loca"].Ptr + 2 * k)
                        ELSE PeekU32(w.buf, w.Tables["loca"].Ptr + 4 * k)
        IN  /\ ~w.panic
            /\ w.Tables["loca"].Len = (N + 1) * (IF short THEN 2 ELSE 4)
            /\ \A k \in 0..N :
                 /\ entry(k) = PaddedLenSum(gen.glyfs, k)
                 /\ short => PaddedLenSum(gen.glyfs, k) \div 2 <= 65535
    /\ Done =>
        LET N == Len(gen.glyphIds)
            stride == IF OutLocFormat = 0 THEN 2 ELSE 4
        IN  /\ OutLocFormat \in {0, 1}
            /\ PeekU16(ret.subset, OutTables["maxp"].Ptr + 4) = N
            /\ OutTables["loca"].Len = (N + 1) * stride
            /\ OutLocaOffset(0) = 0
            /\ OutLocaOffset(N) = OutTables["glyf"].Len
            /\ \A k \in 0..(N - 1) :
                 /\ OutLocaOffset(k) <= OutLocaOffset(k + 1)
                 /\ CopiedFrom(k, gen.glyphIds[k + 1])
            /\ OutLocFormat = 0 => OutTables["glyf"].Len \div 2 <= 65535

\* a subset of several glyphs, one of them with a pad byte
C22_Witness ==
    /\ Done
    /\ Len(gen.glyphIds) >= 3
    /\ \E k \in 0..(Len(gen.glyphIds) - 1) :
         Len(OutGlyph(k)) = Len(GlyphBytes(cfg.layout, gen.glyphIds[k + 1])) + 1

----------------------------------------------------------------------------
\* the declared range of the glyf record of a closure entry, and the two
\* bytes the closure loop read at its start for contourCount
RecordEnd(e) == e.ptr + e.len
HeaderReadEnd(e) == e.ptr + 2

\* C23: every read made on behalf of a table or a glyph record lies inside
\* the declared range of that table or record, or the operation fails at
\* once.  Stated of the glyf header read: every entry the closure loop has
\* recorded, which it does once the read of contourCount has succeeded, has
\* that read inside its record.
C23_ReadsInsideRecords ==
    \A i \in 1..Len(gen.glyfs) :
        phase \notin {"loca", "locaDone"} =>
            HeaderReadEnd(gen.glyfs[i]) <= RecordEnd(gen.glyfs[i])

\* C24: the subset holds glyph 0, the glyphs of the requested codepoints
\* and the glyphs reachable from those through component references, and
\* no other glyph; a glyph whose record has zero length adds no component
\* and is copied as a record of zero length.
C24_NoExtraGlyphs ==
    (Done /\ parseErr = "") =>
        /\ SubsetGids =
              {0} \cup Reach(cfg.layout, {GlyphId(font, c) : c \in Requested})
        /\ \A k \in 0..(Len(gen.glyphIds) - 1) :
             IsEmptyGlyph(cfg.layout, gen.glyphIds[k + 1])
                 => OutLocaOffset(k + 1) = OutLocaOffset(k)

----------------------------------------------------------------------------
\* the entries obtainable from a FontSet: Get(id) and Key(id) for id < Len()
Entries(fonts) == {fonts[i] : i \in 1..Len(fonts)}

\* C25: when AddTtf fails to parse the font bytes, the FontSet is as it was
\* before the call: Len() is unchanged, and Get and Key reach no entry that
\* was not there before.
C25_FailedAddLeavesSet ==
    (fontSet.op = "AddTtf" /\ fontSet.err # "") =>
        /\ Len(fontSet.fonts) = Len(fontSet.before)
        /\ fontSet.fonts = fontSet.before

\* C30: every object putXobjects writes declares /Filter /FlateDecode if
\* and only if its stream holds the compressed content of its xobject, and
\* holds the content itself otherwise.
C30_FilterIffCompressed ==
    doc.closed =>
        \A k \in 1..Len(doc.objects) :
            LET obj == doc.objects[k]
                x == CHOOSE x \in Entries(doc.xobjects) : x.id = obj.n
            IN  /\ obj.stream \in {x.buf, Deflate(x.buf)}
                /\ obj.filter <=> obj.stream = Deflate(x.buf)

----------------------------------------------------------------------------
\* the glyph IDs the closure loop has dequeued and recorded, and those
\* still in its queue
RecordedGids == {gen.glyfs[i].gid : i \in 1..Len(gen.glyfs)}
QueuedGids == {gen.gidStack[i] : i \in 1..Len(gen.gidStack)}

InGenerate == phase \in {"closure", "cmap", "post", "hmtx", "edit", "index"}

\* no glyph ID is recorded twice or queued twice, none is both, and the
\* recorded and queued IDs together are the seen-set
ClosureQueueSound ==
    InGenerate =>
        /\ Cardinality(RecordedGids) = Len(gen.glyfs)
        /\ Cardinality(QueuedGids) = Len(gen.gidStack)
        /\ RecordedGids \cap QueuedGids = {}
        /\ RecordedGids \cup QueuedGids = gen.seenGids
        /\ phase # "closure" => Len(gen.glyfs) = Cardinality(gen.seenGids)

\* C26: the closure work queue terminates for every font, also with
\* composite glyphs that reference each other in a cycle: each glyph ID
\* enters the queue at most once and is recorded exactly once, so the
\* number of recorded glyphs is the size of the seen-set when the loop ends.
C26_ClosureTerminates ==
    /\ []ClosureQueueSound
    /\ (phase = "closure") ~> (phase # "closure")

\* the closure of a font whose glyphs 2 and 3 reference each other is done
C26_Witness ==
    /\ phase = "cmap"
    /\ cfg.layout = 2
    /\ {2, 3} \subseteq gen.seenGids
    /\ Len(gen.glyfs) = Cardinality(gen.seenGids)

\* a Generate call for the empty codepoint set on a parsed font, after
\* genGlyfAndLoca has fixed the subset
EmptyRequest ==
    /\ parseErr = ""
    /\ gen.chars = << >>
    /\ gen.glyphIds # << >>

\* C27: Generate called with an empty requested codepoint set completes
\* without failure and returns a valid font whose only glyph is glyph 0 and
\* whose cmap consists of the sentinel segment alone.
C27_EmptyRequestCompletes ==
    /\ EmptyRequest => phase # "panic"
    /\ (Done /\ parseErr = "" /\ ret.chars = << >>) =>
          /\ ret.gidRemap = <<0>>
          /\ reparsed.err = ""
          /\ OutSegCount = 1
          /\ OutStartCode(0) = 65535 /\ OutEndCode(0) = 65535

\* genCmap returned: no index left its segment arrays
GenCmapCompletes == phase = "segGen" => ~gen.writer.panic

\* parseCmap returned, with an error or without
ParseCmapCompletes == phase = "segParse" => reparsed.err # "panic"

\* C28: the segment index of genCmap and of parseCmap stays inside the
\* 512-entry segment arrays: genCmap completes for a requested codepoint
\* set however many non-contiguous runs it forms, and parseCmap completes
\* for a format 4 subtable with any segment count.
C28_SegmentIndexInside ==
    /\ GenCmapCompletes
    /\ ParseCmapCompletes

\* the last call was Text and it returned: text[i:j] did not panic
TextReturns == padLog.op # "panic"

\* every line the last Text call returned is text[i:j] with
\* 0 <= i <= j <= len(text)
LinesAreSlices ==
    padLog.op = "Text" =>
        \A k \in 1..Len(padLog.lines) :
            /\ 0 <= padLog.lines[k][1]
            /\ padLog.lines[k][1] <= padLog.lines[k][2]
            /\ padLog.lines[k][2]
                   <= ByteIndex(padLog.text, Len(padLog.text) + 1)

\* no line of the last Text call is the slice the line before it was: a
\* break at a new break opportunity ends at a later index, so two equal
\* slices in a row are one break taken again at the following character
BreaksDoNotRepeat ==
    padLog.op = "Text" =>
        \A k \in 1..(Len(padLog.lines) - 1) :
            padLog.lines[k] # padLog.lines[k + 1]

\* C29: for every sequence of Text calls, each line a call emits is a
\* slice text[i:j] of its argument with 0 <= i <= j <= len(text): a break
\* taken when no break opportunity has been seen since the previous break
\* never yields a start index greater than the end index, and such a break
\* does not repeat for each following character.
C29_LinesAreValidSlices ==
    /\ TextReturns
    /\ LinesAreSlices
    /\ BreaksDoNotRepeat
====
